---- MODULE Spec2Model ----
(***************************************************************************)
(* Model of the oref dosing core (src/Core/oref/src): the determine_basal  *)
(* controller with its SMB sizing and pump rounding, the autosens ratio    *)
(* computation and the COB calculation.                                    *)
(*                                                                         *)
(* Numbers are fixed point, arithmetic is exact (IEEE rounding error of    *)
(* the f64 operations is not modelled):                                    *)
(*   glucose, delta, sens          mg/dL, integers                         *)
(*   rates, insulin amounts        1/1000 U (per hour for rates)           *)
(*   eventual_bg                   1/1000 mg/dL                            *)
(*   smb_delivery_ratio            percent                                 *)
(*   timestamps                    minutes                                 *)
(* A quotient that the code keeps as an f64 is kept as a pair <<n, d>>     *)
(* with d > 0 until the code rounds it.                                    *)
(***************************************************************************)
EXTENDS Integers, Sequences, FiniteSets, TLC

(* ------------------------------------------------------------------ *)
(* Option values and integer helpers                                   *)
(* ------------------------------------------------------------------ *)

None == <<>>
Some(v) == <<v>>
IsSome(o) == Len(o) = 1
IsNone(o) == Len(o) = 0
Unwrap(o) == o[1]

Max(a, b) == IF a >= b THEN a ELSE b
Min(a, b) == IF a <= b THEN a ELSE b

\* floor(n / d) for d > 0 (TLA+ \div already rounds toward minus infinity)
FloorDiv(n, d) == n \div d

\* f64::round of n / d for d > 0: nearest integer, halves away from zero
RoundDiv(n, d) ==
    IF n >= 0 THEN (2 * n + d) \div (2 * d)
    ELSE -((2 * (-n) + d) \div (2 * d))

\* comparisons of the quotients a[1]/a[2] and b[1]/b[2]
RatLE(a, b) == a[1] * b[2] <= b[1] * a[2]
RatMin(a, b) == IF RatLE(a, b) THEN a ELSE b
RatMax(a, b) == IF RatLE(a, b) THEN b ELSE a

RECURSIVE GCD(_, _)
GCD(a, b) == IF b = 0 THEN a ELSE GCD(b, a % b)

\* the quotient n/d (d # 0) in lowest terms with a positive denominator
Rat(n, d) ==
    LET g  == GCD(IF n < 0 THEN -n ELSE n, IF d < 0 THEN -d ELSE d)
        sg == IF d < 0 THEN -1 ELSE 1
    IN  IF n = 0 THEN <<0, 1>> ELSE <<sg * (n \div g), sg * (d \div g)>>

RatAdd(a, b) == Rat(a[1] * b[2] + b[1] * a[2], a[2] * b[2])
RatSub(a, b) == Rat(a[1] * b[2] - b[1] * a[2], a[2] * b[2])
\* a / k for an integer k # 0
RatDivInt(a, k) == Rat(a[1], a[2] * k)
\* (a * scale).round() as an integer number of 1/scale
RatRound(a, scale) == RoundDiv(scale * a[1], a[2])

(* ------------------------------------------------------------------ *)
(* utils/round.rs                                                      *)
(* ------------------------------------------------------------------ *)

\* get_pump_increment: 0.025 U/hr for the newer Medtronic models, else 0.05
get_pump_increment(profile) == IF profile.newer_medtronic THEN 25 ELSE 50

\* the threshold above which rates are rounded to 0.1 U/hr (10 U/hr)
HighRateThreshold == 10000

\* round_to_increment(rate, increment), rate = r[1]/r[2] in mU/hr
round_to_increment(r, increment) ==
    IF r[1] > HighRateThreshold * r[2]
    THEN RoundDiv(r[1], r[2] * 100) * 100
    ELSE RoundDiv(r[1], r[2] * increment) * increment

round_basal(r, profile) == round_to_increment(r, get_pump_increment(profile))

(* ------------------------------------------------------------------ *)
(* determine_basal/predictions.rs                                      *)
(* ------------------------------------------------------------------ *)

\* calculate_eventual_bg, in 1/1000 mg/dL:
\* (bg + delta * 12 - iob * sens).max(0.0)
calculate_eventual_bg(inp) ==
    Max(0, 1000 * inp.glucose + 12000 * inp.delta - inp.iob * inp.sens)

(* ------------------------------------------------------------------ *)
(* determine_basal/smb.rs                                              *)
(* ------------------------------------------------------------------ *)

\* should_enable_smb with enable_smb_always tested before the two vetoes
should_enable_smb_always_first(inp, micro_bolus_allowed, bg, target_bg) ==
    IF ~micro_bolus_allowed THEN FALSE
    ELSE IF inp.enable_smb_always THEN TRUE
    ELSE IF ~inp.allow_smb_with_high_temptarget /\ inp.temptarget_set
            /\ target_bg > 100 THEN FALSE
    ELSE IF inp.bw_found /\ ~inp.a52_risk_enable THEN FALSE
    ELSE IF inp.enable_smb_with_cob /\ inp.meal_cob > 0 THEN TRUE
    ELSE IF inp.enable_smb_after_carbs /\ inp.carbs > 0 THEN TRUE
    ELSE IF inp.enable_smb_with_temptarget /\ inp.temptarget_set
            /\ target_bg < 100 THEN TRUE
    ELSE IF inp.enable_smb_high_bg /\ bg >= inp.enable_smb_high_bg_target THEN TRUE
    ELSE FALSE

\* should_enable_smb(profile, micro_bolus_allowed, meal_data, bg, target_bg)
should_enable_smb(inp, micro_bolus_allowed, bg, target_bg) ==
    IF ~micro_bolus_allowed THEN FALSE
    ELSE IF ~inp.allow_smb_with_high_temptarget /\ inp.temptarget_set
            /\ target_bg > 100 THEN FALSE
    ELSE IF inp.bw_found /\ ~inp.a52_risk_enable THEN FALSE
    ELSE IF inp.enable_smb_always THEN TRUE
    ELSE IF inp.enable_smb_with_cob /\ inp.meal_cob > 0 THEN TRUE
    ELSE IF inp.enable_smb_after_carbs /\ inp.carbs > 0 THEN TRUE
    ELSE IF inp.enable_smb_with_temptarget /\ inp.temptarget_set
            /\ target_bg < 100 THEN TRUE
    ELSE IF inp.enable_smb_high_bg /\ bg >= inp.enable_smb_high_bg_target THEN TRUE
    ELSE FALSE

\* mutant: the two minute limits swapped
calculate_max_smb_swapped(inp, iob, cob, basal) ==
    LET max_minutes == IF cob > 0 THEN inp.max_uam_smb_basal_minutes
                       ELSE inp.max_smb_basal_minutes
    IN  <<max_minutes * basal, 60>>

\* calculate_max_smb: (max_minutes / 60) * basal, as a quotient in mU
calculate_max_smb(inp, iob, cob, basal) ==
    LET max_minutes == IF cob > 0 THEN inp.max_smb_basal_minutes
                       ELSE inp.max_uam_smb_basal_minutes
    IN  <<max_minutes * basal, 60>>

\* calculate_smb(profile, insulin_req, iob, cob, basal); insulin_req is the
\* quotient ir[1]/ir[2] in mU.  Returns Some(units in mU) or None.
calculate_smb(inp, ir, iob, cob, basal) ==
    IF ir[1] <= 0 THEN None
    ELSE
      LET max_smb   == calculate_max_smb(inp, iob, cob, basal)
          smb_ratio == Min(inp.smb_delivery_ratio, 100)
          smb       == RatMin(<<ir[1] * smb_ratio, ir[2] * 100>>, max_smb)
          rounded   == FloorDiv(smb[1], smb[2] * inp.bolus_increment)
                         * inp.bolus_increment
      IN  IF rounded >= inp.bolus_increment THEN Some(rounded) ELSE None

(* ------------------------------------------------------------------ *)
(* DetermineBasalResult (types; the constructors are not part of the   *)
(* sources at hand and follow their use in algorithm.rs and its tests) *)
(* ------------------------------------------------------------------ *)

ResultDefault ==
    [rate |-> None, duration |-> None, units |-> None, reason |-> "",
     eventual_bg |-> 0, cob |-> 0, iob |-> 0, bg_mins_ago |-> None,
     target_bg |-> None, insulin_req |-> None, sensitivity_ratio |-> None]

\* DetermineBasalResult::error(reason): a result that carries only the reason
ResultError(reason) == [ResultDefault EXCEPT !.reason = reason]

\* DetermineBasalResult::temp_basal(rate, duration, reason)
ResultTempBasal(rate, duration, reason) ==
    [ResultDefault EXCEPT !.rate = Some(rate), !.duration = Some(duration),
                          !.reason = reason]

(* ------------------------------------------------------------------ *)
(* determine_basal/algorithm.rs                                        *)
(* ------------------------------------------------------------------ *)

\* CurrentTemp::is_active
is_active(inp) == inp.temp_duration > 0

\* the glucose below which delivery is suspended (mg/dL)
LowGlucoseSuspendBg == 80

\* the fields every branch after the precondition check fills in
\* (algorithm.rs, "Determine Action")
result_common(inp, eventual_bg, bg_mins_ago, insulin_req) ==
    [ResultDefault EXCEPT
        !.cob = inp.meal_cob, !.iob = inp.iob,
        !.eventual_bg = eventual_bg,
        !.bg_mins_ago = Some(bg_mins_ago),
        !.target_bg = Some(inp.min_bg),
        !.sensitivity_ratio = Some(inp.autosens_ratio),
        !.insulin_req = Some(insulin_req)]

\* mutant: the suspend branch sets the scheduled basal instead of zero
low_glucose_suspend_basal(inp, bg_mins_ago) ==
    [ResultTempBasal(round_basal(<<inp.current_basal, 1>>, inp), 30,
                     "BG < 80, temp zero") EXCEPT
        !.cob = inp.meal_cob, !.iob = inp.iob,
        !.eventual_bg = 1000 * inp.glucose,
        !.bg_mins_ago = Some(bg_mins_ago),
        !.target_bg = Some(inp.min_bg)]

\* "Low Glucose Suspend": a 30 minute zero temp, no SMB
low_glucose_suspend(inp, bg_mins_ago) ==
    [ResultTempBasal(0, 30, "BG < 80, temp zero") EXCEPT
        !.cob = inp.meal_cob, !.iob = inp.iob,
        !.eventual_bg = 1000 * inp.glucose,
        !.bg_mins_ago = Some(bg_mins_ago),
        !.target_bg = Some(inp.min_bg)]

\* "In Range": cancel a running high temp, otherwise no action
in_range(inp, common, basal) ==
    IF is_active(inp) /\ inp.temp_rate > basal
    THEN [common EXCEPT !.rate = Some(basal), !.duration = Some(30),
                        !.reason = "in range, canceling high temp"]
    ELSE [common EXCEPT !.reason = "in range, no action needed"]

\* "Above Target": needed_rate = basal + insulin_req / 0.5, clamped to
\* [0, max_basal], then rounded; SMB when allowed and insulin_req > 0
above_target(inp, common, basal, insulin_req) ==
    LET needed_rate == <<basal * insulin_req[2] + 2 * insulin_req[1], insulin_req[2]>>
        clamped     == RatMin(RatMax(needed_rate, <<0, 1>>), <<inp.max_basal, 1>>)
        rate        == round_basal(clamped, inp)
        smb         == IF inp.micro_bolus_allowed /\ insulin_req[1] > 0
                       THEN calculate_smb(inp, insulin_req, inp.iob,
                                          inp.meal_cob, basal)
                       ELSE None
    IN  [common EXCEPT !.units = smb, !.rate = Some(rate),
                       !.duration = Some(30),
                       !.reason = "above target, setting temp"]

\* "Below Target": needed_rate = max(0, basal + insulin_req / 0.5), rounded
below_target(inp, common, basal, insulin_req) ==
    LET needed_rate == <<basal * insulin_req[2] + 2 * insulin_req[1], insulin_req[2]>>
        rate        == round_basal(RatMax(needed_rate, <<0, 1>>), inp)
    IN  [common EXCEPT !.rate = Some(rate), !.duration = Some(30),
                       !.reason = "below target, reducing"]

\* the instant the call takes as now: current_time.unwrap_or_else(Utc::now)
now_of(current_time, wall) ==
    IF IsSome(current_time) THEN Unwrap(current_time) ELSE wall

\* determine_basal with the low glucose suspend tested before the
\* current basal
determine_basal_suspend_first(inp, current_time, wall) ==
    LET now         == now_of(current_time, wall)
        basal       == round_basal(<<inp.current_basal, 1>>, inp)
        bg_mins_ago == now - inp.date
        eventual_bg == calculate_eventual_bg(inp)
        insulin_req == <<eventual_bg - 1000 * inp.min_bg, inp.sens>>
        common      == result_common(inp, eventual_bg, bg_mins_ago, insulin_req)
    IN
    IF inp.glucose < LowGlucoseSuspendBg
    THEN low_glucose_suspend(inp, bg_mins_ago)
    ELSE IF inp.current_basal <= 0
    THEN ResultError("Could not get current basal rate")
    ELSE IF eventual_bg >= 1000 * inp.min_bg /\ eventual_bg <= 1000 * inp.max_bg
    THEN in_range(inp, common, basal)
    ELSE IF eventual_bg > 1000 * inp.max_bg
    THEN above_target(inp, common, basal, insulin_req)
    ELSE IF eventual_bg < 1000 * inp.min_bg
    THEN below_target(inp, common, basal, insulin_req)
    ELSE [common EXCEPT !.reason = "No action needed"]

\* determine_basal(inputs): current_time is an Option, wall is what
\* Utc::now() returns at the moment of the call.  The five prediction
\* series are functions of the inputs alone and do not enter the decision;
\* they are left out of the result.
determine_basal(inp, current_time, wall) ==
    LET now         == now_of(current_time, wall)
        basal       == round_basal(<<inp.current_basal, 1>>, inp)
        bg_mins_ago == now - inp.date
        eventual_bg == calculate_eventual_bg(inp)
        \* insulin_req = (eventual_bg - target_bg) / sens, in mU
        insulin_req == <<eventual_bg - 1000 * inp.min_bg, inp.sens>>
        common      == result_common(inp, eventual_bg, bg_mins_ago, insulin_req)
    IN
    IF inp.current_basal <= 0
    THEN ResultError("Could not get current basal rate")
    ELSE IF inp.glucose < LowGlucoseSuspendBg
    THEN low_glucose_suspend(inp, bg_mins_ago)
    ELSE IF eventual_bg >= 1000 * inp.min_bg /\ eventual_bg <= 1000 * inp.max_bg
    THEN in_range(inp, common, basal)
    ELSE IF eventual_bg > 1000 * inp.max_bg
    THEN above_target(inp, common, basal, insulin_req)
    ELSE IF eventual_bg < 1000 * inp.min_bg
    THEN below_target(inp, common, basal, insulin_req)
    ELSE [common EXCEPT !.reason = "No action needed"]

(* ------------------------------------------------------------------ *)
(* ffi/mod.rs and wasm/mod.rs: the boundary functions                  *)
(* ------------------------------------------------------------------ *)

\* the largest |timestamp| that chrono maps to an instant (model scale)
MaxInstant == 1000

\* DateTime::from_timestamp_millis
from_timestamp_millis(t) ==
    IF t >= -MaxInstant /\ t <= MaxInstant THEN Some(t) ELSE None

\* oref_determine_basal / wasm determine_basal:
\* current_time = current_time_millis.and_then(from_timestamp_millis)
oref_determine_basal(inp, wall) ==
    LET current_time == IF IsSome(inp.current_time_millis)
                        THEN from_timestamp_millis(Unwrap(inp.current_time_millis))
                        ELSE None
    IN  determine_basal(inp, current_time, wall)

\* oref_determine_basal_simple / wasm determine_basal_simple:
\* meal_data = MealData::with_cob(meal_cob, 0.0), current_time = None
oref_determine_basal_simple(inp, wall) ==
    determine_basal([inp EXCEPT !.carbs = 0, !.bw_found = FALSE], None, wall)

\* the call through the entry point named by inp.entry
Call(inp, wall) ==
    CASE inp.entry = "core"   -> determine_basal(inp, inp.current_time_millis, wall)
      [] inp.entry = "json"   -> oref_determine_basal(inp, wall)
      [] inp.entry = "simple" -> oref_determine_basal_simple(inp, wall)

(* ------------------------------------------------------------------ *)
(* autosens/mod.rs: the ratio                                          *)
(* Deviations are in 1/100 mg/dL, ratios in 1/1000.                    *)
(* ------------------------------------------------------------------ *)

\* n copies of v
Repeat(v, n) == [i \in 1..n |-> v]

\* the length below which calculate_deviations pads with zeros
PadBelow == 96
\* the number of zeros a list of no deviations is padded with
PadZeros == 18

\* the tail of calculate_deviations: with fewer than 96 deviations,
\* ((1 - len / 96) * 18).round() zeros are appended
pad_deviations(deviations) ==
    IF Len(deviations) < PadBelow
    THEN deviations \o Repeat(0, RoundDiv((PadBelow - Len(deviations)) * PadZeros, PadBelow))
    ELSE deviations

\* percentile(sorted, p), p in percent: sorted[round(p * (len - 1))]
percentile(sorted, p) ==
    IF Len(sorted) = 0 THEN 0
    ELSE LET index == RoundDiv(p * (Len(sorted) - 1), 100)
         IN  sorted[Min(index, Len(sorted) - 1) + 1]

\* calculate_ratio_from_deviations: the median deviation as a basal
\* offset, 1 + offset / max_basal clamped to [autosens_min, autosens_max]
\* and then rounded to 2 decimal places
calculate_ratio_from_deviations(deviations, profile, config) ==
    IF Len(deviations) = 0 THEN 1000
    ELSE
      LET sorted    == SortSeq(deviations, LAMBDA a, b : a < b)
          p50       == percentile(sorted, 50)
          \* basal_off = p50 * (60 / 5) / sens;  raw = 1 + basal_off / max_basal
          raw_ratio == <<1000 * profile.sens * profile.max_basal + 120000 * p50,
                         profile.sens * profile.max_basal>>
          ratio     == RatMin(RatMax(raw_ratio, <<config.autosens_min, 1>>),
                              <<config.autosens_max, 1>>)
      IN  RoundDiv(ratio[1], ratio[2] * 10) * 10

\* detect_sensitivity_with_config.  The bucketed series and the deviation
\* loop are represented by what they hand on: the number of readings, the
\* number of buckets and the deviations collected before the padding.
detect_sensitivity_with_config(a) ==
    IF a.n_glucose = 0 THEN 1000
    ELSE IF a.n_buckets < 4 THEN 1000
    ELSE LET deviations == pad_deviations(a.deviations)
         IN  IF Len(deviations) = 0 THEN 1000
             ELSE calculate_ratio_from_deviations(deviations, a.profile, a.config)

(* ------------------------------------------------------------------ *)
(* profile/isf.rs                                                      *)
(* ------------------------------------------------------------------ *)

MinutesPerDay == 1440

\* isf_lookup_from_schedule: the schedule is a sequence of
\* [offset, sensitivity]; time is in minutes, its time of day is
\* hour * 60 + minute
isf_lookup_from_schedule(schedule, time) ==
    IF Len(schedule) = 0 THEN None
    ELSE
      LET now_minutes == time % MinutesPerDay
          sorted      == SortSeq(schedule, LAMBDA a, b : a.offset < b.offset)
          next_offset(i) == IF i + 1 <= Len(sorted) THEN sorted[i + 1].offset
                            ELSE MinutesPerDay
          hits        == {i \in 1..Len(sorted) :
                            now_minutes >= sorted[i].offset
                            /\ now_minutes < next_offset(i)}
          first_hit   == CHOOSE i \in hits : \A j \in hits : i <= j
      IN  IF sorted[1].offset # 0 THEN None
          ELSE IF hits = {} THEN Some(sorted[Len(sorted)].sensitivity)
          ELSE Some(sorted[first_hit].sensitivity)

\* isf_lookup: the schedule entry, or profile.sens
isf_lookup(profile, time) ==
    LET found == isf_lookup_from_schedule(profile.isf_profile, time)
    IN  IF IsSome(found) THEN Unwrap(found) ELSE profile.sens

(* ------------------------------------------------------------------ *)
(* insulin/calculate.rs: activity of one dose, bilinear curve          *)
(* ------------------------------------------------------------------ *)

\* BilinearCurve::calculate, activity_contrib in mU/min as a quotient.
\* With dia >= 3 h, scaled = 3 * mins_ago / dia, activity_peak =
\* 2 / (dia * 60): before the peak (scaled < 75) insulin * scaled *
\* activity_peak / 75, before the end (scaled < 180) insulin *
\* (activity_peak - (scaled - 75) * activity_peak / 105), then 0.
bilinear_activity(insulin, mins_ago, dia_in) ==
    LET dia == Max(dia_in, 3) IN
    IF 3 * mins_ago < 75 * dia
    THEN Rat(insulin * mins_ago, 750 * dia * dia)
    ELSE IF 3 * mins_ago < 180 * dia
    THEN Rat(insulin * (60 * dia - mins_ago), 1050 * dia * dia)
    ELSE <<0, 1>>

\* bilinear_iob with the constant term of the second polynomial in the
\* first one
bilinear_iob_second_constant(insulin, mins_ago, dia_in) ==
    LET dia == Max(dia_in, 3)
        d   == 5 * dia
        x1  == 3 * mins_ago + 5 * dia
        x2  == 3 * mins_ago - 75 * dia
        per_unit ==
            IF 3 * mins_ago < 75 * dia
            THEN Rat(1852 * x1 * d - 1852 * x1 * x1 + 555560 * d * d, 1000000 * d * d)
            ELSE IF 3 * mins_ago < 180 * dia
            THEN Rat(1323 * x2 * x2 - 54233 * x2 * d + 555560 * d * d, 1000000 * d * d)
            ELSE <<0, 1>>
        units == Rat(insulin, 1000)
    IN  Rat(per_unit[1] * units[1], per_unit[2] * units[2])

\* BilinearCurve::calculate, iob_contrib in U as a quotient.  With
\* x = scaled / 5 + 1 = (3 * mins_ago + 5 * dia) / (5 * dia) before the
\* peak: insulin * (-0.001852 x^2 + 0.001852 x + 1); with
\* x = (scaled - 75) / 5 = (3 * mins_ago - 75 * dia) / (5 * dia) before
\* the end: insulin * (0.001323 x^2 - 0.054233 x + 0.555560); then 0.
\* insulin is in mU.
bilinear_iob(insulin, mins_ago, dia_in) ==
    LET dia == Max(dia_in, 3)
        d   == 5 * dia
        x1  == 3 * mins_ago + 5 * dia
        x2  == 3 * mins_ago - 75 * dia
        per_unit ==
            IF 3 * mins_ago < 75 * dia
            THEN Rat(1852 * x1 * d - 1852 * x1 * x1 + 1000000 * d * d, 1000000 * d * d)
            ELSE IF 3 * mins_ago < 180 * dia
            THEN Rat(1323 * x2 * x2 - 54233 * x2 * d + 555560 * d * d, 1000000 * d * d)
            ELSE <<0, 1>>
        units == Rat(insulin, 1000)
    IN  Rat(per_unit[1] * units[1], per_unit[2] * units[2])

\* the shortest DIA of the exponential curves, in hours
ExponentialMinDia == 5

\* ExponentialCurve::calculate, iob_contrib in U as a quotient: 0 from
\* end = dia * 60 on; at mins_ago = 0 the inner term is
\* (0 - 0 - 1) * exp(0) + 1 = 0 and the value is insulin * (1 - 0) (tau is
\* finite when 2 * peak # end).  For 0 < mins_ago < end the value takes
\* exp(-mins_ago / tau) and is not represented.
exponential_iob(insulin, mins_ago, dia_in, peak) ==
    LET dia == Max(dia_in, ExponentialMinDia)
        end == dia * 60
    IN  IF mins_ago >= end THEN <<0, 1>>
        ELSE CASE mins_ago = 0 /\ 2 * peak # end -> Rat(insulin, 1000)

\* calculate_iob_contrib (iob part)
iob_contrib(insulin, mins_ago, curve, dia, peak) ==
    IF insulin <= 0 \/ mins_ago < 0 THEN <<0, 1>>
    ELSE CASE curve = "bilinear" -> bilinear_iob(insulin, mins_ago, dia)
           [] curve \in {"rapid-acting", "ultra-rapid"} ->
                exponential_iob(insulin, mins_ago, dia, peak)

\* calculate_iob_contrib (activity part); the model covers the bilinear
\* curve only
activity_contrib(insulin, mins_ago, profile) ==
    IF insulin <= 0 \/ mins_ago < 0 THEN <<0, 1>>
    ELSE CASE profile.curve = "bilinear" ->
                bilinear_activity(insulin, mins_ago, profile.dia)

(* ------------------------------------------------------------------ *)
(* cob/mod.rs                                                          *)
(* Readings are most recent first, as the loop reads them; carbs are   *)
(* in grams, deviations in 1/100 (1/1000 for the averaged ones) mg/dL. *)
(* ------------------------------------------------------------------ *)

\* Treatment::effective_date (the date field; the timestamp strings that
\* stand in for a zero date are not modelled)
effective_date(t) == t.date

\* Option<f64>::unwrap_or(0.0)
unwrap_or_zero(o) == IF IsSome(o) THEN Unwrap(o) ELSE 0

\* find_meal_time: the latest carb entry (>= 1 g) within the window
find_meal_time(treatments, clock, max_absorption_hours) ==
    LET window_start == clock - max_absorption_hours * 60
        times == {effective_date(treatments[i]) : i \in
                   {j \in 1..Len(treatments) :
                      /\ effective_date(treatments[j]) >= window_start
                      /\ effective_date(treatments[j]) <= clock
                      /\ unwrap_or_zero(treatments[j].carbs) >= 1}}
    IN  IF times = {} THEN None
        ELSE Some(CHOOSE t \in times : \A u \in times : u <= t)

\* calculate_total_carbs: the carbs (>= 1 g) entered in [meal_time, clock]
RECURSIVE calculate_total_carbs(_, _, _)
calculate_total_carbs(treatments, meal_time, clock) ==
    IF Len(treatments) = 0 THEN 0
    ELSE
      LET t == Head(treatments)
          counted == IF /\ effective_date(t) >= meal_time
                        /\ effective_date(t) <= clock
                        /\ IsSome(t.carbs) /\ Unwrap(t.carbs) >= 1
                     THEN Unwrap(t.carbs) ELSE 0
      IN  counted + calculate_total_carbs(Tail(treatments), meal_time, clock)

\* calculate_iob_at_time: the summed activity (mU/min) of the doses given
\* within DIA before time
RECURSIVE activity_at_time(_, _, _)
activity_at_time(profile, treatments, time) ==
    IF Len(treatments) = 0 THEN <<0, 1>>
    ELSE
      LET t    == Head(treatments)
          rest == activity_at_time(profile, Tail(treatments), time)
          insulin == unwrap_or_zero(t.insulin)
      IN  IF effective_date(t) > time THEN rest
          ELSE IF time - effective_date(t) > profile.dia * 60 THEN rest
          ELSE IF insulin <= 0 THEN rest
          ELSE RatAdd(activity_contrib(insulin, time - effective_date(t), profile), rest)

\* the readings below this value are invalid
MinValidGlucose == 39
\* the longest stretch the interpolation fills, in minutes
MaxFillMinutes == 240

\* the while loop of bucket_glucose_data: fill buckets every 5 minutes
\* back from interp_time while remaining > 5
RECURSIVE interpolate(_, _, _, _)
interpolate(remaining, interp_time, last_bg, gap_delta) ==
    IF remaining > 5
    THEN LET t2        == interp_time - 5
             interp_bg == RatAdd(last_bg, Rat(5 * gap_delta, remaining))
         IN  <<[date |-> t2, glucose |-> <<RoundDiv(interp_bg[1], interp_bg[2]), 1>>]>>
             \o interpolate(remaining - 5, t2, interp_bg, gap_delta)
    ELSE <<>>

\* one iteration of the for loop of bucket_glucose_data
bucket_step(st, reading, meal_millis, max_absorption_hours) ==
    IF reading.glucose < MinValidGlucose THEN st
    ELSE IF reading.date - meal_millis > max_absorption_hours * 60
            \/ st.found_pre_meal THEN st
    ELSE
      LET elapsed == reading.date - st.last_bg_time
          gap     == IF elapsed < 0 THEN -elapsed ELSE elapsed
          n       == Len(st.bucketed)
          bucketed ==
            IF gap > 8
            THEN st.bucketed \o interpolate(Min(gap, MaxFillMinutes), st.last_bg_time,
                                            <<st.last_bg, 1>>,
                                            reading.glucose - st.last_bg)
            ELSE IF gap > 2
            THEN Append(st.bucketed, [date |-> reading.date,
                                      glucose |-> <<reading.glucose, 1>>])
            ELSE IF n > 0
            THEN [st.bucketed EXCEPT ![n].glucose =
                    RatDivInt(RatAdd(@, <<reading.glucose, 1>>), 2)]
            ELSE st.bucketed
      IN  [bucketed |-> bucketed, last_bg_time |-> reading.date,
           last_bg |-> reading.glucose,
           found_pre_meal |-> reading.date - meal_millis < 0]

RECURSIVE bucket_loop(_, _, _, _)
bucket_loop(st, readings, meal_millis, max_absorption_hours) ==
    IF Len(readings) = 0 THEN st.bucketed
    ELSE bucket_loop(bucket_step(st, Head(readings), meal_millis, max_absorption_hours),
                     Tail(readings), meal_millis, max_absorption_hours)

\* bucket_glucose_data
bucket_glucose_data(glucose_data, meal_millis, max_absorption_hours) ==
    IF Len(glucose_data) = 0 THEN <<>>
    ELSE
      LET first == Head(glucose_data)
          st0   == [bucketed |-> IF first.glucose >= MinValidGlucose
                                 THEN <<[date |-> first.date,
                                         glucose |-> <<first.glucose, 1>>]>>
                                 ELSE <<>>,
                    last_bg_time |-> first.date, last_bg |-> first.glucose,
                    found_pre_meal |-> FALSE]
      IN  bucket_loop(st0, Tail(glucose_data), meal_millis, max_absorption_hours)

\* CarbAbsorptionResult::default()
CarbAbsorptionDefault ==
    [carbs_absorbed |-> <<0, 1>>, current_deviation |-> 0,
     max_deviation |-> 0, min_deviation |-> 0,
     slope_from_max_deviation |-> <<0, 1>>, slope_from_min_deviation |-> <<0, 1>>,
     all_deviations |-> <<>>]

\* one iteration (index i, counted from 1) of the loop of
\* detect_carb_absorption_internal over the buckets b
absorption_step(acc, b, i, profile, treatments, meal_millis, ci_millis) ==
    LET bg_time == b[i].date
        bg      == b[i].glucose
    IN
    IF ~RatLE(<<MinValidGlucose, 1>>, bg) \/ ~RatLE(<<MinValidGlucose, 1>>, b[i + 3].glucose)
    THEN acc
    ELSE
      LET avg_delta   == RatDivInt(RatSub(bg, b[i + 3].glucose), 3)
          delta       == RatSub(bg, b[i + 1].glucose)
          bg_datetime == IF IsSome(from_timestamp_millis(bg_time)) THEN bg_time
                         ELSE ci_millis
          sens        == isf_lookup(profile, bg_datetime)
          activity    == activity_at_time(profile, treatments, bg_datetime)
          \* bgi = round(-activity * sens * 5, 2), in 1/100 mg/dL
          bgi         == RoundDiv(-(activity[1] * sens), 2 * activity[2])
          \* deviation = round(delta - bgi, 2), in 1/100 mg/dL
          deviation   == RatRound(RatSub(delta, <<bgi, 100>>), 100)
          \* round(avg_delta - bgi, 3), in 1/1000 mg/dL
          avg_deviation == RatRound(RatSub(avg_delta, <<bgi, 100>>), 1000)
          current_deviation == IF i = 1 THEN avg_deviation ELSE acc.current_deviation
          tracked     == i > 1 /\ ci_millis > bg_time
          \* (avg_deviation - current_deviation) / (bg_time - ci_millis) ms
          \*   * 1000 * 60 * 5, in 1/1000 mg/dL per 5 minutes
          slope       == IF tracked
                         THEN Rat(5 * (avg_deviation - current_deviation),
                                  bg_time - ci_millis)
                         ELSE <<0, 1>>
          new_max     == tracked /\ avg_deviation > acc.max_deviation
          new_min     == tracked /\ avg_deviation < acc.min_deviation
          \* ci = max(deviation, current_deviation / 2, min_5m_carbimpact),
          \* in 1/2000 mg/dL
          ci          == Max(Max(20 * deviation, current_deviation),
                             2000 * profile.min_5m_carbimpact)
          \* absorbed = ci * carb_ratio / sens, in grams
          absorbed    == Rat(ci * profile.carb_ratio, 2000 * sens)
      IN  [carbs_absorbed |-> IF bg_time > meal_millis
                              THEN RatAdd(acc.carbs_absorbed, absorbed)
                              ELSE acc.carbs_absorbed,
           current_deviation |-> current_deviation,
           max_deviation |-> IF new_max THEN avg_deviation ELSE acc.max_deviation,
           min_deviation |-> IF new_min THEN avg_deviation ELSE acc.min_deviation,
           slope_from_max_deviation |->
               IF new_max THEN RatMin(slope, <<0, 1>>) ELSE acc.slope_from_max_deviation,
           slope_from_min_deviation |->
               IF new_min THEN RatMax(slope, <<0, 1>>) ELSE acc.slope_from_min_deviation,
           all_deviations |->
               IF ci_millis > bg_time
               THEN Append(acc.all_deviations, RoundDiv(avg_deviation, 1000))
               ELSE acc.all_deviations]

RECURSIVE absorption_loop(_, _, _, _, _, _, _)
absorption_loop(acc, b, i, profile, treatments, meal_millis, ci_millis) ==
    IF i + 3 > Len(b) THEN acc
    ELSE absorption_loop(
            absorption_step(acc, b, i, profile, treatments, meal_millis, ci_millis),
            b, i + 1, profile, treatments, meal_millis, ci_millis)

\* detect_carb_absorption_internal
detect_carb_absorption_internal(profile, glucose_data, treatments, meal_time, ci_time) ==
    IF Len(glucose_data) = 0 THEN CarbAbsorptionDefault
    ELSE
      LET bucketed_data == bucket_glucose_data(glucose_data, meal_time,
                                               profile.max_meal_absorption_time)
          acc0 == [CarbAbsorptionDefault EXCEPT
                     !.min_deviation = 999000,
                     !.slope_from_min_deviation = <<999000, 1>>]
      IN  IF Len(bucketed_data) < 4 THEN CarbAbsorptionDefault
          ELSE absorption_loop(acc0, bucketed_data, 1, profile, treatments,
                               meal_time, ci_time)

\* COBResult::default()
COBResultDefault ==
    [meal_cob |-> <<0, 1>>, carbs_absorbed |-> <<0, 1>>, current_deviation |-> 0,
     max_deviation |-> 0, min_deviation |-> 0,
     slope_from_max |-> <<0, 1>>, slope_from_min |-> <<0, 1>>]

\* cob::calculate
cob_calculate(profile, glucose_data, treatments, clock) ==
    LET meal_time == find_meal_time(treatments, clock, profile.max_meal_absorption_time)
    IN
    IF IsNone(meal_time) THEN COBResultDefault
    ELSE
      LET absorption  == detect_carb_absorption_internal(profile, glucose_data,
                              treatments, Unwrap(meal_time), clock)
          total_carbs == calculate_total_carbs(treatments, Unwrap(meal_time), clock)
          meal_cob    == RatMax(RatSub(<<total_carbs, 1>>, absorption.carbs_absorbed),
                                <<0, 1>>)
      IN  [meal_cob |-> meal_cob,
           carbs_absorbed |-> absorption.carbs_absorbed,
           current_deviation |-> absorption.current_deviation,
           max_deviation |-> absorption.max_deviation,
           min_deviation |-> absorption.min_deviation,
           slope_from_max |-> absorption.slope_from_max_deviation,
           slope_from_min |-> absorption.slope_from_min_deviation]

(* ------------------------------------------------------------------ *)
(* Input spaces of determine_basal                                     *)
(* ------------------------------------------------------------------ *)

\* the number of times the wall clock advances between two invocations
MaxTicks == 1
\* Utc::now() at the first invocation, in minutes
WallBase == 200

Bit(b) == IF b THEN 1 ELSE 0

SmbFlagSpace ==
    [enable_smb_always: BOOLEAN, enable_smb_with_cob: BOOLEAN,
     enable_smb_after_carbs: BOOLEAN, enable_smb_with_temptarget: BOOLEAN,
     enable_smb_high_bg: BOOLEAN,
     allow_smb_with_high_temptarget: BOOLEAN, a52_risk_enable: BOOLEAN]

EnableCount(f) ==
    Bit(f.enable_smb_always) + Bit(f.enable_smb_with_cob)
    + Bit(f.enable_smb_after_carbs) + Bit(f.enable_smb_with_temptarget)
    + Bit(f.enable_smb_high_bg)

\* flag settings with at most one enable_smb_* flag set
SmbFlags == {f \in SmbFlagSpace : EnableCount(f) <= 1}

NoSmbFlags ==
    [enable_smb_always |-> FALSE, enable_smb_with_cob |-> FALSE,
     enable_smb_after_carbs |-> FALSE, enable_smb_with_temptarget |-> FALSE,
     enable_smb_high_bg |-> FALSE,
     allow_smb_with_high_temptarget |-> FALSE, a52_risk_enable |-> FALSE]

IobValues == {0, 1000, 3000}
BgValues == {70, 110, 150, 300}

\* inputs that exercise the rate branches, the clamp and the rounding
RateInputs ==
    { r @@ NoSmbFlags :
        r \in [entry: {"core"}, current_time_millis: {Some(100)}, date: {95},
               glucose: BgValues, delta: {0, 5}, iob: IobValues,
               temp_rate: {0, 2500}, temp_duration: {0, 30},
               current_basal: {0, 900, 2000}, max_basal: {1030, 3500, 12060},
               max_iob: {2500}, min_bg: {100}, max_bg: {120}, sens: {40},
               newer_medtronic: BOOLEAN,
               bolus_increment: {100}, smb_delivery_ratio: {50},
               max_smb_basal_minutes: {30}, max_uam_smb_basal_minutes: {30},
               enable_smb_high_bg_target: {200}, temptarget_set: {FALSE},
               autosens_ratio: {100}, meal_cob: {0, 30}, carbs: {0},
               bw_found: {FALSE}, micro_bolus_allowed: BOOLEAN] }

\* inputs that exercise the SMB enable flags and the SMB sizing
SmbInputs ==
    { r @@ f :
        r \in [entry: {"core"}, current_time_millis: {Some(100)}, date: {95},
               glucose: {150, 300}, delta: {0}, iob: {0},
               temp_rate: {0}, temp_duration: {0},
               current_basal: {1000}, max_basal: {3500},
               max_iob: {2500}, min_bg: {90, 110}, max_bg: {120}, sens: {40},
               newer_medtronic: {FALSE},
               bolus_increment: {50, 100}, smb_delivery_ratio: {50, 150},
               max_smb_basal_minutes: {30}, max_uam_smb_basal_minutes: {30, 60},
               enable_smb_high_bg_target: {200}, temptarget_set: BOOLEAN,
               autosens_ratio: {100}, meal_cob: {0, 30}, carbs: {0, 30},
               bw_found: BOOLEAN, micro_bolus_allowed: {TRUE}],
        f \in SmbFlags }

\* inputs that exercise the entry points and the optional current time
TimeInputs ==
    { r @@ NoSmbFlags :
        r \in [entry: {"core", "json", "simple"},
               current_time_millis: {None, Some(100), Some(MaxInstant + 1)},
               date: {95},
               glucose: {70, 150}, delta: {0}, iob: {0},
               temp_rate: {0}, temp_duration: {0},
               current_basal: {0, 900}, max_basal: {3500},
               max_iob: {2500}, min_bg: {100}, max_bg: {120}, sens: {40},
               newer_medtronic: {FALSE},
               bolus_increment: {100}, smb_delivery_ratio: {50},
               max_smb_basal_minutes: {30}, max_uam_smb_basal_minutes: {30},
               enable_smb_high_bg_target: {200}, temptarget_set: {FALSE},
               autosens_ratio: {100}, meal_cob: {0}, carbs: {0},
               bw_found: {FALSE}, micro_bolus_allowed: {FALSE}] }

\* the typed core takes an Option<DateTime>: an instant or nothing;
\* the simple entry points take no time at all
WellFormed(inp) ==
    /\ inp.entry = "core" =>
          \/ IsNone(inp.current_time_millis)
          \/ IsSome(from_timestamp_millis(Unwrap(inp.current_time_millis)))
    /\ inp.entry = "simple" => IsNone(inp.current_time_millis)

DetermineBasalInputs ==
    {inp \in RateInputs \cup SmbInputs \cup TimeInputs : WellFormed(inp)}

(* ------------------------------------------------------------------ *)
(* The invocations                                                     *)
(* ------------------------------------------------------------------ *)

VARIABLES
    inputs,     \* the inputs of the first invocation
    result,     \* its result (None before the call)
    inputs2,    \* the inputs of the second invocation
    result2,    \* its result (None before the call)
    ticks,      \* how far the wall clock has advanced
    pc,         \* "ready", "first" (one call made), "second" (two calls made)
    as_in,      \* the inputs of the autosens call
    as_out,     \* the ratio it returned (None before the call)
    cob_in,     \* the inputs of the cob::calculate call
    cob_out,    \* the COBResult it returned (None before the call)
    call,       \* the arguments of a call of one library function
    ret         \* what it returned (None before the call)

dbvars == <<inputs, result, inputs2, result2, ticks, pc>>
asvars == <<as_in, as_out>>
cobvars == <<cob_in, cob_out>>
libvars == <<call, ret>>
vars == <<dbvars, asvars, cobvars, libvars>>

Wall == WallBase + ticks

Init ==
    /\ inputs \in DetermineBasalInputs
    /\ inputs2 = inputs
    /\ result = None
    /\ result2 = None
    /\ ticks = 0
    /\ pc = "ready"
    /\ as_in = None
    /\ as_out = None
    /\ cob_in = None
    /\ cob_out = None
    /\ call = None
    /\ ret = None

\* the host invokes determine_basal on the inputs
Invoke ==
    /\ pc = "ready"
    /\ result' = Some(Call(inputs, Wall))
    /\ pc' = "first"
    /\ UNCHANGED <<inputs, inputs2, result2, ticks, asvars, cobvars, libvars>>

\* time passes between two invocations
Tick ==
    /\ pc = "first"
    /\ ticks < MaxTicks
    /\ ticks' = ticks + 1
    /\ UNCHANGED <<inputs, result, inputs2, result2, pc, asvars, cobvars, libvars>>

\* the host invokes determine_basal again on equal inputs
InvokeSame ==
    /\ pc = "first"
    /\ inputs2' = inputs
    /\ result2' = Some(Call(inputs, Wall))
    /\ pc' = "second"
    /\ UNCHANGED <<inputs, result, ticks, asvars, cobvars, libvars>>

\* the host invokes determine_basal on inputs that differ in iob only
InvokeOtherIob ==
    /\ pc = "first"
    /\ \E i \in IobValues \ {inputs.iob} :
          /\ inputs2' = [inputs EXCEPT !.iob = i]
          /\ result2' = Some(Call(inputs2', Wall))
    /\ pc' = "second"
    /\ UNCHANGED <<inputs, result, ticks, asvars, cobvars, libvars>>

\* the host invokes determine_basal on inputs that differ in glucose only
InvokeOtherBg ==
    /\ pc = "first"
    /\ \E b \in BgValues \ {inputs.glucose} :
          /\ inputs2' = [inputs EXCEPT !.glucose = b]
          /\ result2' = Some(Call(inputs2', Wall))
    /\ pc' = "second"
    /\ UNCHANGED <<inputs, result, ticks, asvars, cobvars, libvars>>

Next == Invoke \/ Tick \/ InvokeSame \/ InvokeOtherIob \/ InvokeOtherBg

Spec == Init /\ [][Next]_vars

TypeOK ==
    /\ inputs \in DetermineBasalInputs
    /\ pc \in {"ready", "first", "second"}
    /\ ticks \in 0..MaxTicks
    /\ (pc = "ready") = IsNone(result)
    /\ (pc = "second") = IsSome(result2)

(* ------------------------------------------------------------------ *)
(* The autosens call                                                   *)
(* ------------------------------------------------------------------ *)

\* the most deviations a collected list holds in the model
MaxDevs == 18

DevNeg == -500
DevPos == 300

\* the collected lists, up to their order: a negative, b zero and c
\* positive deviations
DevLists ==
    { Repeat(DevNeg, a) \o Repeat(0, b) \o Repeat(DevPos, c) :
        a \in 0..MaxDevs, b \in {0, 1}, c \in {0, 1, MaxDevs - 1, MaxDevs} }

AutosensConfigs ==
    { [lookback |-> 96, autosens_min |-> 700, autosens_max |-> 1200],
      [lookback |-> 96, autosens_min |-> 704, autosens_max |-> 1205],
      [lookback |-> 96, autosens_min |-> 695, autosens_max |-> 1195],
      [lookback |-> 96, autosens_min |-> 1000, autosens_max |-> 1000] }

AutosensInputs ==
    [n_glucose: {0, 10}, n_buckets: {3, 10}, deviations: DevLists,
     profile: [sens: {40}, max_basal: {1000, 3500}],
     config: AutosensConfigs]

InitAutosens ==
    /\ inputs = None /\ inputs2 = None
    /\ result = None /\ result2 = None
    /\ ticks = 0
    /\ pc = "idle"
    /\ as_in \in {a \in AutosensInputs : a.n_buckets <= a.n_glucose}
    /\ as_out = None
    /\ cob_in = None
    /\ cob_out = None
    /\ call = None
    /\ ret = None

\* the host calls detect_sensitivity_with_config
DetectSensitivity ==
    /\ IsNone(as_out)
    /\ as_in # None
    /\ as_out' = Some(detect_sensitivity_with_config(as_in))
    /\ UNCHANGED <<as_in, dbvars, cobvars, libvars>>

NextAutosens == DetectSensitivity

SpecAutosens == InitAutosens /\ [][NextAutosens]_vars

\* C9: the returned ratio lies within [autosens_min, autosens_max], also
\* after the final rounding to 2 decimal places.
C9_RatioWithinBounds ==
    IsSome(as_out) =>
        /\ Unwrap(as_out) >= as_in.config.autosens_min
        /\ Unwrap(as_out) <= as_in.config.autosens_max

(* ------------------------------------------------------------------ *)
(* The cob::calculate call                                             *)
(* ------------------------------------------------------------------ *)

\* the most readings a glucose series holds in the model
MaxReadings == 10

\* the instant of the call, in minutes
CobClock == 600

Carbs(at, grams) == [date |-> at, insulin |-> None, carbs |-> Some(grams)]
Bolus(at, units) == [date |-> at, insulin |-> Some(units), carbs |-> None]

\* the treatment lists: none, an entry below 1 g, a small meal, two meals
\* with a bolus, a large meal with a bolus
CobTreatments ==
    { <<>>,
      <<Carbs(CobClock - 40, 0)>>,
      <<Carbs(CobClock - 40, 10)>>,
      <<Carbs(CobClock - 40, 10), Bolus(CobClock - 40, 2000), Carbs(CobClock - 25, 30)>>,
      <<Bolus(CobClock - 60, 3000), Carbs(CobClock - 60, 60)>> }

\* the date of reading k (from 0, the most recent): every 5 minutes, with
\* a 15 minute gap before reading 2, or with reading 2 one minute before
\* reading 1
ReadingDate(spacing, k) ==
    CASE spacing = "regular" -> CobClock - 5 * k
      [] spacing = "gap"     -> IF k < 2 THEN CobClock - 5 * k ELSE CobClock - 5 * k - 10
      [] spacing = "close"   -> IF k < 2 THEN CobClock - 5 * k ELSE CobClock - 5 * (k - 1) - 1

GlucoseSeries(n, spacing, start, step) ==
    [k \in 1..n |-> [date |-> ReadingDate(spacing, k - 1),
                     glucose |-> start - (k - 1) * step]]

CobProfiles ==
    [sens: {50}, carb_ratio: {10}, min_5m_carbimpact: {3, 8},
     max_meal_absorption_time: {6}, dia: {3}, curve: {"bilinear"},
     isf_profile: { <<>>,
                    <<[offset |-> CobClock - 20, sensitivity |-> 25],
                      [offset |-> 0, sensitivity |-> 50]>> }]

CobInputs ==
    { [profile |-> p, treatments |-> t, clock |-> CobClock,
       glucose_data |-> GlucoseSeries(n, sp, start, step)] :
        p \in CobProfiles, t \in CobTreatments,
        n \in {0, 3, 6, MaxReadings},
        sp \in {"regular", "gap", "close"},
        start \in {45, 120}, step \in {-4, 0, 6} }

InitCob ==
    /\ inputs = None /\ inputs2 = None
    /\ result = None /\ result2 = None
    /\ ticks = 0
    /\ pc = "idle"
    /\ as_in = None
    /\ as_out = None
    /\ cob_in \in CobInputs
    /\ cob_out = None
    /\ call = None
    /\ ret = None

\* the host calls cob::calculate
CalculateCob ==
    /\ IsNone(cob_out)
    /\ cob_in # None
    /\ cob_out' = Some(cob_calculate(cob_in.profile, cob_in.glucose_data,
                                     cob_in.treatments, cob_in.clock))
    /\ UNCHANGED <<cob_in, dbvars, asvars, libvars>>

NextCob == CalculateCob

SpecCob == InitCob /\ [][NextCob]_vars

\* the carbs entered between the inferred meal time and the call
CarbsSinceMeal ==
    LET meal_time == find_meal_time(cob_in.treatments, cob_in.clock,
                                    cob_in.profile.max_meal_absorption_time)
    IN  IF IsNone(meal_time) THEN 0
        ELSE calculate_total_carbs(cob_in.treatments, Unwrap(meal_time), cob_in.clock)

\* C10: every result of cob::calculate has meal_cob >= 0, and meal_cob +
\* carbs_absorbed does not exceed the carbs entered between the inferred
\* meal time and the call.
C10_CobWithinCarbsEntered ==
    IsSome(cob_out) =>
        /\ RatLE(<<0, 1>>, Unwrap(cob_out).meal_cob)
        /\ RatLE(RatAdd(Unwrap(cob_out).meal_cob, Unwrap(cob_out).carbs_absorbed),
                 <<CarbsSinceMeal, 1>>)

\* the two bounds on meal_cob alone: 0 <= meal_cob <= carbs entered
CobMealCobBounded ==
    IsSome(cob_out) =>
        /\ RatLE(<<0, 1>>, Unwrap(cob_out).meal_cob)
        /\ RatLE(Unwrap(cob_out).meal_cob, <<CarbsSinceMeal, 1>>)

(* ------------------------------------------------------------------ *)
(* Properties of determine_basal                                       *)
(* ------------------------------------------------------------------ *)

\* P holds of every invocation made so far
EachCall(P(_, _)) ==
    /\ IsSome(result) => P(inputs, Unwrap(result))
    /\ IsSome(result2) => P(inputs2, Unwrap(result2))

\* P holds of some invocation made so far
SomeCall(P(_, _)) ==
    \/ IsSome(result) /\ P(inputs, Unwrap(result))
    \/ IsSome(result2) /\ P(inputs2, Unwrap(result2))

\* the scheduled basal after pump rounding
RoundedBasal(inp) == round_basal(<<inp.current_basal, 1>>, inp)

RateInCeiling(inp, res) ==
    IsSome(res.rate) => Unwrap(res.rate) >= 0 /\ Unwrap(res.rate) <= inp.max_basal

\* C1: every returned rate r satisfies 0 <= r <= profile.max_basal, in
\* every branch that sets a rate and after pump-increment rounding.
C1_RateWithinMaxBasal == EachCall(RateInCeiling)

Suspended(inp, res) ==
    /\ res.rate = Some(0)
    /\ res.duration = Some(30)
    /\ IsNone(res.units)

LowGlucoseSuspends(inp, res) == inp.glucose < 80 => Suspended(inp, res)

\* C2 as stated: for every input with glucose < 80 the result is rate 0,
\* duration 30 and no SMB units, whatever the profile is.
C2_LowGlucoseAlwaysSuspends == EachCall(LowGlucoseSuspends)

LowGlucoseSuspendsWithBasal(inp, res) ==
    inp.glucose < 80 /\ inp.current_basal > 0 => Suspended(inp, res)

\* C2 amended: for every input with glucose < 80 and current_basal > 0 the
\* result is rate 0, duration 30 and no SMB units, whatever IOB, meal data,
\* current temp and micro_bolus_allowed are.
C2_LowGlucoseSuspend == EachCall(LowGlucoseSuspendsWithBasal)

LowGlucoseCase(inp, res) ==
    /\ inp.glucose < 80 /\ inp.current_basal > 0
    /\ inp.micro_bolus_allowed /\ inp.iob > 0 /\ inp.meal_cob > 0
    /\ is_active(inp)
    /\ Suspended(inp, res)

C2_Witness == SomeCall(LowGlucoseCase)

InsulinReqPositive(inp) ==
    calculate_eventual_bg(inp) - 1000 * inp.min_bg > 0

SmbOnlyWhenEnabled(inp, res) ==
    IsSome(res.units) =>
        /\ inp.micro_bolus_allowed
        /\ InsulinReqPositive(inp)
        /\ should_enable_smb(inp, inp.micro_bolus_allowed, inp.glucose, inp.min_bg)

\* C3: SMB units are returned only when micro_bolus_allowed is true,
\* insulin_req > 0 and the enable predicate should_enable_smb holds.
C3_SmbOnlyWhenEnabled == EachCall(SmbOnlyWhenEnabled)

\* the cap the claim names: (max_smb_basal_minutes / 60) * basal
SmbWithinSmbMinutes(inp, res) ==
    IsSome(res.units) =>
        LET u == Unwrap(res.units) IN
        /\ u >= 0
        /\ u % inp.bolus_increment = 0
        /\ 60 * u <= inp.max_smb_basal_minutes * RoundedBasal(inp)

\* C4 as stated: returned SMB units are a non-negative multiple of
\* bolus_increment and at most (max_smb_basal_minutes / 60) * basal.
C4_SmbWithinSmbBasalMinutes == EachCall(SmbWithinSmbMinutes)

\* the cap the sizing applies: max_smb_basal_minutes with meal_cob > 0,
\* max_uam_smb_basal_minutes otherwise
SmbWithinSizingCap(inp, res) ==
    IsSome(res.units) =>
        LET u == Unwrap(res.units)
            max_minutes == IF inp.meal_cob > 0 THEN inp.max_smb_basal_minutes
                           ELSE inp.max_uam_smb_basal_minutes
        IN
        /\ u >= 0
        /\ u % inp.bolus_increment = 0
        /\ 60 * u <= max_minutes * RoundedBasal(inp)

\* C4 amended: returned SMB units are a non-negative multiple of
\* bolus_increment and at most (max_minutes / 60) * basal, where max_minutes
\* is max_smb_basal_minutes when meal_cob > 0 and max_uam_smb_basal_minutes
\* when meal_cob = 0.
C4_SmbWithinCap == EachCall(SmbWithinSizingCap)

\* an SMB with meal_cob = 0 that the max_uam_smb_basal_minutes cap has sized
SmbCappedUam(inp, res) ==
    /\ IsSome(res.units)
    /\ inp.meal_cob = 0
    /\ inp.max_uam_smb_basal_minutes > inp.max_smb_basal_minutes
    /\ 60 * Unwrap(res.units) = inp.max_uam_smb_basal_minutes * RoundedBasal(inp)

C4_Witness == SomeCall(SmbCappedUam)

MaxIobBinds(inp, res) ==
    inp.iob >= inp.max_iob =>
        /\ IsNone(res.units)
        /\ IsSome(res.rate) => Unwrap(res.rate) <= RoundedBasal(inp)

\* C5: with iob >= max_iob the result carries no SMB units and no temp
\* rate above the scheduled (rounded) basal.
C5_MaxIobBinds == EachCall(MaxIobBinds)

\* the two invocations differ in the field f only
DiffersOnlyInIob ==
    /\ pc = "second"
    /\ inputs2.iob # inputs.iob
    /\ inputs2 = [inputs EXCEPT !.iob = inputs2.iob]

DiffersOnlyInBg ==
    /\ pc = "second"
    /\ inputs2.glucose # inputs.glucose
    /\ inputs2 = [inputs EXCEPT !.glucose = inputs2.glucose]

BothRates == IsSome(Unwrap(result).rate) /\ IsSome(Unwrap(result2).rate)
Rate1 == Unwrap(Unwrap(result).rate)
Rate2 == Unwrap(Unwrap(result2).rate)

\* C6: two inputs that differ only in iob, iob1 < iob2: the rate for iob2
\* is not greater than the rate for iob1.
C6_RateMonotoneInIob ==
    DiffersOnlyInIob /\ BothRates =>
        /\ inputs.iob < inputs2.iob => Rate2 <= Rate1
        /\ inputs2.iob < inputs.iob => Rate1 <= Rate2

\* C7: two inputs that differ only in glucose, max_bg < bg1 < bg2: the rate
\* for bg2 is not smaller than the rate for bg1.
C7_RateMonotoneInBg ==
    DiffersOnlyInBg /\ BothRates =>
        /\ inputs.max_bg < inputs.glucose /\ inputs.glucose < inputs2.glucose
              => Rate2 >= Rate1
        /\ inputs.max_bg < inputs2.glucose /\ inputs2.glucose < inputs.glucose
              => Rate1 >= Rate2

\* C8: two invocations with equal inputs produce equal outputs in every
\* field, whenever the calls are made.
C8_Deterministic ==
    pc = "second" /\ inputs2 = inputs => result2 = result

(* ------------------------------------------------------------------ *)
(* The IOB of one bolus: calculate_iob_contrib at two ages of the dose *)
(* ------------------------------------------------------------------ *)

\* a <= b for quotients with positive denominators, by comparing the
\* integer parts and then the reciprocals of the fractional parts
RECURSIVE RatLeq(_, _)
RatLeq(a, b) ==
    LET q1 == a[1] \div a[2]
        q2 == b[1] \div b[2]
        r1 == a[1] % a[2]
        r2 == b[1] % b[2]
    IN  IF q1 # q2 THEN q1 < q2
        ELSE IF r1 = 0 THEN TRUE
        ELSE IF r2 = 0 THEN FALSE
        ELSE RatLeq(<<b[2], r2>>, <<a[2], r1>>)

RatAbs(a) == <<IF a[1] < 0 THEN -a[1] ELSE a[1], a[2]>>

\* the oldest dose looked at, in minutes
MaxMinsAgo == 400

\* the pairs of ages: neighbouring minutes, an age against a much later
\* one, and age 0 against every age
AgePairs ==
    { <<m, m + g>> : m \in 0..MaxMinsAgo, g \in {1, 2, 60} }
    \cup { <<0, m>> : m \in 0..MaxMinsAgo }

\* the ages at which the exponential curves are represented
ExponentialAges(dia) == {0} \cup {m \in 0..MaxMinsAgo : m >= Max(dia, ExponentialMinDia) * 60}

IobCalls ==
    { [fn |-> "calculate_iob_contrib", insulin |-> u, curve |-> c, dia |-> d,
       peak |-> p, m1 |-> a[1], m2 |-> a[2]] :
        u \in {500, 2000}, c \in {"bilinear", "rapid-acting", "ultra-rapid"},
        d \in 2..6, p \in {55, 75}, a \in AgePairs }

InitIob ==
    /\ inputs = None /\ inputs2 = None
    /\ result = None /\ result2 = None
    /\ ticks = 0
    /\ pc = "idle"
    /\ as_in = None /\ as_out = None
    /\ cob_in = None /\ cob_out = None
    /\ call \in { c \in IobCalls :
                    c.curve # "bilinear" =>
                        /\ c.m1 \in ExponentialAges(c.dia)
                        /\ c.m2 \in ExponentialAges(c.dia) }
    /\ ret = None

\* the host asks for the IOB of the dose at both ages
CalculateIobContrib ==
    /\ IsNone(ret)
    /\ call # None
    /\ call.fn = "calculate_iob_contrib"
    /\ ret' = Some([iob1 |-> iob_contrib(call.insulin, call.m1, call.curve,
                                         call.dia, call.peak),
                    iob2 |-> iob_contrib(call.insulin, call.m2, call.curve,
                                         call.dia, call.peak)])
    /\ UNCHANGED <<call, dbvars, asvars, cobvars>>

NextIob == CalculateIobContrib

SpecIob == InitIob /\ [][NextIob]_vars

\* the dose of the call, in U
DoseUnits == Rat(call.insulin, 1000)

\* the DIA the curve of the call enforces, in hours
EnforcedDia ==
    IF call.curve = "bilinear" THEN Max(call.dia, 3)
    ELSE Max(call.dia, ExponentialMinDia)

\* x is v within 0.01
Within001(x, v) == RatLeq(RatAbs(RatSub(x, v)), <<1, 100>>)

\* the IOB at age 0 is the dose, and the IOB from dia_hours on is 0,
\* both within 0.01
IobEndsAt(dia_hours) ==
    IsSome(ret) =>
        /\ call.m1 = 0 => Within001(Unwrap(ret).iob1, DoseUnits)
        /\ call.m1 >= dia_hours * 60 => Within001(Unwrap(ret).iob1, <<0, 1>>)
        /\ call.m2 >= dia_hours * 60 => Within001(Unwrap(ret).iob2, <<0, 1>>)

\* C11 as stated: for one positive bolus under any curve the IOB at age 0
\* is the dose within 0.01, and at every age of at least dia * 60 minutes
\* it is 0 within 0.01.
C11_IobStartsAtDoseEndsAtDia == IobEndsAt(call.dia)

\* C11: for one positive bolus under any curve the IOB at age 0 is the
\* dose within 0.01, and at every age of at least D * 60 minutes it is 0
\* within 0.01, where D is the DIA the curve enforces: max(dia, 3) for the
\* bilinear curve, max(dia, 5) for the exponential ones.
C11_IobStartsAtDoseEndsAtEnforcedDia == IobEndsAt(EnforcedDia)

\* a dose seen at age 0 and again at the end of the enforced DIA
C11_Witness ==
    /\ IsSome(ret)
    /\ call.m1 = 0
    /\ call.m2 = EnforcedDia * 60
    /\ call.curve = "rapid-acting"
    /\ Unwrap(ret).iob1 = DoseUnits
    /\ Unwrap(ret).iob2 = <<0, 1>>

\* C12: for one positive bolus under any curve the IOB does not increase
\* with the age of the dose over [0, dia * 60], and is never below 0.
C12_IobNonIncreasing ==
    IsSome(ret) /\ call.m2 <= EnforcedDia * 60 =>
        /\ RatLeq(Unwrap(ret).iob2, Unwrap(ret).iob1)
        /\ RatLeq(<<0, 1>>, Unwrap(ret).iob1)
        /\ RatLeq(<<0, 1>>, Unwrap(ret).iob2)

(* ------------------------------------------------------------------ *)
(* iob/history.rs                                                      *)
(* Rates are in mU/h, durations in minutes, impulses in mU (quotients). *)
(* ------------------------------------------------------------------ *)

\* Profile::effective_dia, in hours
effective_dia(profile) == profile.dia

\* lookup_basal_at_time: the schedule is a sequence of [i, minutes, rate]
lookup_basal_at_time(profile, time_millis) ==
    IF Len(profile.basal_profile) = 0 THEN profile.current_basal
    ELSE
      LET dt          == IF IsSome(from_timestamp_millis(time_millis))
                         THEN time_millis ELSE Wall
          now_minutes == dt % MinutesPerDay
          schedule    == SortSeq(profile.basal_profile, LAMBDA a, b : a.i < b.i)
          next_minutes(k) == IF k + 1 <= Len(schedule) THEN schedule[k + 1].minutes
                             ELSE MinutesPerDay
          hits        == {k \in 1..Len(schedule) :
                            now_minutes >= schedule[k].minutes
                            /\ now_minutes < next_minutes(k)}
      IN  IF hits = {} THEN schedule[Len(schedule)].rate
          ELSE schedule[CHOOSE k \in hits : \A j \in hits : k <= j].rate

\* the smallest impulse kept, 0.0001 U, in mU
MinImpulse == <<1, 10>>

\* the loop over the 5 minute chunks of one temp basal, from chunk on
RECURSIVE temp_basal_chunks(_, _, _, _, _, _)
temp_basal_chunks(event_date, net_rate, duration, chunks, chunk, now_millis) ==
    IF chunk >= chunks THEN <<>>
    ELSE
      LET chunk_start    == event_date + chunk * 5
          chunk_duration == IF chunk = chunks - 1 THEN duration - chunk * 5 ELSE 5
          chunk_insulin  == Rat(net_rate * chunk_duration, 60)
      IN  IF chunk_start > now_millis THEN <<>>
          ELSE (IF ~RatLeq(RatAbs(chunk_insulin), MinImpulse)
                THEN <<[date |-> chunk_start, insulin |-> Some(chunk_insulin)]>>
                ELSE <<>>)
               \o temp_basal_chunks(event_date, net_rate, duration, chunks,
                                    chunk + 1, now_millis)

\* a field of a Treatment: the fields a record leaves out hold the None
\* of Treatment::default()
treatment_field(t, name) == IF name \in DOMAIN t THEN t[name] ELSE None

\* event.started_at.clone().or(event.timestamp.clone())
started_at_or_timestamp(event) ==
    IF IsSome(treatment_field(event, "started_at")) THEN event.started_at
    ELSE treatment_field(event, "timestamp")

\* the treatment pushed for the bolus of an event: insulin, date and
\* started_at, the rest ..Default::default()
bolus_treatment(event, event_date) ==
    LET started_at == started_at_or_timestamp(event)
    IN  IF IsSome(started_at)
        THEN [date |-> event_date, insulin |-> Some(<<Unwrap(event.insulin), 1>>),
              started_at |-> started_at]
        ELSE [date |-> event_date, insulin |-> Some(<<Unwrap(event.insulin), 1>>)]

\* the treatments one history event yields: its bolus, then the chunks
\* of its temp basal
event_treatments(profile, event, now_millis) ==
    LET event_date == effective_date(event)
        bolus == IF IsSome(event.insulin) /\ Unwrap(event.insulin) > 0
                 THEN <<bolus_treatment(event, event_date)>>
                 ELSE <<>>
        temp  == IF IsSome(event.rate) /\ IsSome(event.duration)
                    /\ Unwrap(event.duration) > 0
                 THEN LET scheduled_basal == lookup_basal_at_time(profile, event_date)
                          net_rate == Unwrap(event.rate) - scheduled_basal
                          \* (duration / 5.0).ceil()
                          chunks   == (Unwrap(event.duration) + 4) \div 5
                      IN  temp_basal_chunks(event_date, net_rate,
                                            Unwrap(event.duration), chunks, 0, now_millis)
                 ELSE <<>>
    IN  bolus \o temp

RECURSIVE history_treatments(_, _, _)
history_treatments(profile, history, now_millis) ==
    IF Len(history) = 0 THEN <<>>
    ELSE
      LET event      == Head(history)
          event_date == effective_date(event)
          dia_ago    == now_millis - effective_dia(profile) * 60
          rest       == history_treatments(profile, Tail(history), now_millis)
      IN  IF event_date < dia_ago \/ event_date > now_millis THEN rest
          ELSE event_treatments(profile, event, now_millis) \o rest

\* the zero temp projected over zero_temp_duration minutes from now
zero_temp_treatments(profile, now_millis, zero_temp_duration) ==
    IF zero_temp_duration > 0
    THEN [chunk \in 1..(zero_temp_duration \div 5) |->
            [date |-> now_millis + (chunk - 1) * 5,
             insulin |-> Some(Rat(-(profile.current_basal * 5), 60))]]
    ELSE <<>>

\* sort_by_key(|t| t.date), a stable sort
RECURSIVE insert_by_date(_, _)
insert_by_date(sorted, t) ==
    IF Len(sorted) = 0 THEN <<t>>
    ELSE IF sorted[Len(sorted)].date <= t.date THEN Append(sorted, t)
    ELSE Append(insert_by_date(SubSeq(sorted, 1, Len(sorted) - 1), t),
                sorted[Len(sorted)])

RECURSIVE sort_by_date(_)
sort_by_date(s) ==
    IF Len(s) = 0 THEN <<>>
    ELSE insert_by_date(sort_by_date(SubSeq(s, 1, Len(s) - 1)), s[Len(s)])

\* find_insulin_treatments
find_insulin_treatments(profile, history, clock, zero_temp_duration) ==
    sort_by_date(history_treatments(profile, history, clock)
                 \o zero_temp_treatments(profile, clock, zero_temp_duration))

(* ------------------------------------------------------------------ *)
(* The find_insulin_treatments call                                    *)
(* ------------------------------------------------------------------ *)

\* the instant of the call, in minutes
HistoryClock == 600

TempBasal(at, rate, duration) ==
    [date |-> at, insulin |-> None, rate |-> Some(rate), duration |-> Some(duration)]

BolusEvent(at, units) ==
    [date |-> at, insulin |-> Some(units), rate |-> None, duration |-> None]

\* the basal schedules: none, one entry, a change 30 minutes before the
\* call, and the same with the later entry carrying the lower index
BasalProfiles ==
    { <<>>,
      <<[i |-> 0, minutes |-> 0, rate |-> 800]>>,
      <<[i |-> 0, minutes |-> 0, rate |-> 800],
        [i |-> 1, minutes |-> HistoryClock - 30, rate |-> 1200]>>,
      <<[i |-> 1, minutes |-> 0, rate |-> 800],
        [i |-> 0, minutes |-> HistoryClock - 30, rate |-> 1200]>> }

HistoryProfiles ==
    [dia: {3}, current_basal: {1000}, basal_profile: BasalProfiles]

\* the histories: one temp basal, alone or after a bolus
Histories ==
    { b \o <<TempBasal(HistoryClock - ago, rate, duration)>> :
        b \in { <<>>, <<BolusEvent(HistoryClock - 20, 1500)>> },
        ago \in {10, 40, 200}, rate \in {0, 1000, 2000},
        duration \in {0, 3, 12, 30} }

HistoryCalls ==
    [fn: {"find_insulin_treatments"}, profile: HistoryProfiles,
     history: Histories, clock: {HistoryClock}, zero_temp_duration: {0, 10}]

InitHistory ==
    /\ inputs = None /\ inputs2 = None
    /\ result = None /\ result2 = None
    /\ ticks = 0
    /\ pc = "idle"
    /\ as_in = None /\ as_out = None
    /\ cob_in = None /\ cob_out = None
    /\ call \in HistoryCalls
    /\ ret = None

\* the host calls find_insulin_treatments
FindInsulinTreatments ==
    /\ IsNone(ret)
    /\ call # None
    /\ call.fn = "find_insulin_treatments"
    /\ ret' = Some(find_insulin_treatments(call.profile, call.history, call.clock,
                                           call.zero_temp_duration))
    /\ UNCHANGED <<call, dbvars, asvars, cobvars>>

NextHistory == FindInsulinTreatments

SpecHistory == InitHistory /\ [][NextHistory]_vars

\* the call decomposes one temp basal and nothing else
OneTempBasal ==
    /\ Len(call.history) = 1
    /\ call.zero_temp_duration = 0
    /\ call.history[1].date >= call.clock - effective_dia(call.profile) * 60
    /\ call.history[1].date <= call.clock
    /\ Unwrap(call.history[1].duration) > 0

\* the impulses of the temp basal of the call as the decomposition rule
\* gives them: chunk k of ceil(d / 5), unless it starts after now, has
\* (r - scheduled_basal(t + 5k)) * min(5, d - 5k) / 60
RuleImpulses ==
    LET t == call.history[1].date
        r == Unwrap(call.history[1].rate)
        d == Unwrap(call.history[1].duration)
        chunks == (d + 4) \div 5
        started == {k \in 0..(chunks - 1) : t + 5 * k <= call.clock}
    IN  [n \in 1..Cardinality(started) |->
            [date |-> t + 5 * (n - 1),
             insulin |-> Some(Rat((r - lookup_basal_at_time(call.profile, t + 5 * (n - 1)))
                                    * Min(5, d - 5 * (n - 1)), 60))]]

RECURSIVE SumImpulses(_)
SumImpulses(s) ==
    IF Len(s) = 0 THEN <<0, 1>>
    ELSE RatAdd(Unwrap(Head(s).insulin), SumImpulses(Tail(s)))

\* the temp basal of the call lies in the past and the schedule has one
\* rate
PastUnderConstantSchedule ==
    /\ call.history[1].date + Unwrap(call.history[1].duration) <= call.clock
    /\ Len(call.profile.basal_profile) <= 1

\* C13: a temp basal of rate r and d minutes starting at t becomes ceil(d/5)
\* impulses, impulse k of (r - scheduled_basal(t + 5k)) * min(5, d - 5k) / 60
\* with the scheduled basal of each chunk's own time of day, the chunks
\* starting after now left out; in the past under a constant schedule
\* they sum to (r - basal) * d / 60.
C13_TempBasalDecomposition ==
    IsSome(ret) /\ OneTempBasal =>
        /\ Unwrap(ret) = RuleImpulses
        /\ PastUnderConstantSchedule =>
              SumImpulses(Unwrap(ret)) =
                  Rat((Unwrap(call.history[1].rate)
                         - lookup_basal_at_time(call.profile, call.history[1].date))
                        * Unwrap(call.history[1].duration), 60)

\* the sum alone
TempBasalSum ==
    IsSome(ret) /\ OneTempBasal /\ PastUnderConstantSchedule =>
        SumImpulses(Unwrap(ret)) =
            Rat((Unwrap(call.history[1].rate)
                   - lookup_basal_at_time(call.profile, call.history[1].date))
                  * Unwrap(call.history[1].duration), 60)

(* ------------------------------------------------------------------ *)
(* autosens/mod.rs: bucket_glucose_data_for_autosens                   *)
(* ------------------------------------------------------------------ *)

\* the loop of bucket_glucose_data_for_autosens over sorted, from index i
\* (counted from 1) on
RECURSIVE autosens_bucket_loop(_, _, _, _)
autosens_bucket_loop(bucketed, sorted, i, last_site_millis) ==
    IF i > Len(sorted) THEN bucketed
    ELSE
      LET reading == sorted[i]
          n       == Len(bucketed)
          pushed  == Append(bucketed, [date |-> reading.date,
                                       glucose |-> <<reading.glucose, 1>>,
                                       meal_carbs |-> 0])
          elapsed == reading.date - sorted[i - 1].date
          gap     == IF elapsed < 0 THEN -elapsed ELSE elapsed
          next    ==
            IF reading.glucose < MinValidGlucose THEN bucketed
            ELSE IF reading.date < last_site_millis THEN bucketed
            ELSE IF i = 1 THEN pushed
            ELSE IF sorted[i - 1].glucose < MinValidGlucose THEN bucketed
            ELSE IF gap > 2 THEN pushed
            ELSE IF n > 0
            THEN [bucketed EXCEPT ![n].glucose =
                    RatDivInt(RatAdd(@, <<reading.glucose, 1>>), 2)]
            ELSE bucketed
      IN  autosens_bucket_loop(next, sorted, i + 1, last_site_millis)

\* bucket_glucose_data_for_autosens
bucket_glucose_data_for_autosens(glucose_data, last_site_change) ==
    IF Len(glucose_data) = 0 THEN <<>>
    ELSE autosens_bucket_loop(<<>>, sort_by_date(glucose_data), 1, last_site_change)

(* ------------------------------------------------------------------ *)
(* Bucketing a series and bucketing the buckets again                  *)
(* ------------------------------------------------------------------ *)

\* the buckets as readings: a bucket's date and its glucose (whole in
\* every bucket of a series without close readings)
buckets_as_readings(bucketed) ==
    [k \in 1..Len(bucketed) |->
        [date |-> bucketed[k].date,
         glucose |-> CASE bucketed[k].glucose[2] = 1 -> bucketed[k].glucose[1]]]

Reverse(s) == [k \in 1..Len(s) |-> s[Len(s) + 1 - k]]

\* valid readings exactly 5 minutes apart, most recent first or oldest
\* first
RegularSeries ==
    { IF newest_first THEN g ELSE Reverse(g) :
        newest_first \in BOOLEAN,
        g \in { GlucoseSeries(n, "regular", 120, step) :
                  n \in 1..MaxReadings, step \in {-4, 0, 6} } }

BucketCalls ==
    [fn: {"bucket_glucose_data", "bucket_glucose_data_for_autosens"},
     glucose_data: RegularSeries,
     meal_millis: {CobClock - 100, CobClock - 20, CobClock},
     max_absorption_hours: {1, 6},
     last_site_change: {0, CobClock - 20}]

InitBucket ==
    /\ inputs = None /\ inputs2 = None
    /\ result = None /\ result2 = None
    /\ ticks = 0
    /\ pc = "idle"
    /\ as_in = None /\ as_out = None
    /\ cob_in = None /\ cob_out = None
    /\ call \in BucketCalls
    /\ ret = None

\* the routine of the call applied to g
bucket_routine(g) ==
    IF call.fn = "bucket_glucose_data"
    THEN bucket_glucose_data(g, call.meal_millis, call.max_absorption_hours)
    ELSE bucket_glucose_data_for_autosens(g, call.last_site_change)

\* the series is bucketed, and the buckets are bucketed again
BucketTwice ==
    /\ IsNone(ret)
    /\ call # None
    /\ call.fn \in {"bucket_glucose_data", "bucket_glucose_data_for_autosens"}
    /\ LET once == bucket_routine(call.glucose_data)
       IN  ret' = Some([once |-> once,
                        twice |-> bucket_routine(buckets_as_readings(once))])
    /\ UNCHANGED <<call, dbvars, asvars, cobvars>>

NextBucket == BucketTwice

SpecBucket == InitBucket /\ [][NextBucket]_vars

\* C14: on valid readings exactly 5 minutes apart, bucketing the output of
\* the bucketing routine (bucket_glucose_data, and
\* bucket_glucose_data_for_autosens) returns that output unchanged.
C14_BucketingIdempotent ==
    IsSome(ret) => Unwrap(ret).twice = Unwrap(ret).once

\* the same for the autosens routine alone
AutosensBucketingIdempotent ==
    IsSome(ret) /\ call.fn = "bucket_glucose_data_for_autosens" =>
        Unwrap(ret).twice = Unwrap(ret).once

\* the same for the COB routine when no reading lies more than
\* max_absorption_hours after the meal
CobBucketingIdempotentInWindow ==
    IsSome(ret) /\ call.fn = "bucket_glucose_data"
    /\ (\A k \in 1..Len(call.glucose_data) :
           call.glucose_data[k].date - call.meal_millis <= call.max_absorption_hours * 60) =>
        Unwrap(ret).twice = Unwrap(ret).once

(* ------------------------------------------------------------------ *)
(* determine_basal: the precondition on the current basal              *)
(* ------------------------------------------------------------------ *)

ErrorOnly(inp, res) ==
    inp.current_basal <= 0 =>
        /\ res.reason = "Could not get current basal rate"
        /\ IsNone(res.rate) /\ IsNone(res.duration) /\ IsNone(res.units)

\* C15: with profile.current_basal <= 0, determine_basal returns a result
\* that carries only the reason "Could not get current basal rate": no
\* rate, no duration and no SMB units, whatever the other inputs are.
C15_NoBasalOnlyReason == EachCall(ErrorOnly)

\* a call without a current basal whose glucose would otherwise suspend
\* and one whose glucose would otherwise dose
NoBasalCase(inp, res) ==
    /\ inp.current_basal <= 0
    /\ inp.glucose < LowGlucoseSuspendBg
    /\ inp.micro_bolus_allowed
    /\ res = ResultError("Could not get current basal rate")

NoBasalHighCase(inp, res) ==
    /\ inp.current_basal <= 0
    /\ inp.glucose > inp.max_bg
    /\ res = ResultError("Could not get current basal rate")

C15_Witness == SomeCall(NoBasalCase) /\ SomeCall(NoBasalHighCase)

(* ------------------------------------------------------------------ *)
(* cob::calculate without enough glucose data                          *)
(* ------------------------------------------------------------------ *)

\* the call has no readings, or its readings make fewer than 4 buckets
TooFewBuckets ==
    LET meal_time == find_meal_time(cob_in.treatments, cob_in.clock,
                                    cob_in.profile.max_meal_absorption_time)
    IN  \/ Len(cob_in.glucose_data) = 0
        \/ /\ IsSome(meal_time)
           /\ Len(bucket_glucose_data(cob_in.glucose_data, Unwrap(meal_time),
                                      cob_in.profile.max_meal_absorption_time)) < 4

\* C16: without glucose readings, or with fewer than 4 buckets,
\* cob::calculate returns meal_cob = 0 and carbs_absorbed = 0, whatever the
\* treatment history is.
C16_ZerosWithoutGlucose ==
    IsSome(cob_out) /\ TooFewBuckets =>
        /\ Unwrap(cob_out).meal_cob = <<0, 1>>
        /\ Unwrap(cob_out).carbs_absorbed = <<0, 1>>

\* what is returned then: nothing absorbed, every carb entered on board
AllCarbsOnBoardWithoutGlucose ==
    IsSome(cob_out) /\ TooFewBuckets =>
        /\ Unwrap(cob_out).meal_cob = <<CarbsSinceMeal, 1>>
        /\ Unwrap(cob_out).carbs_absorbed = <<0, 1>>

(* ------------------------------------------------------------------ *)
(* The boundary functions and timestamps that are no instant           *)
(* ------------------------------------------------------------------ *)

\* what a boundary function returns is the {"error": ...} object
IsErrorJson(res) == "error" \in DOMAIN res

InvalidTimeRejected(inp, res) ==
    /\ inp.entry = "json"
    /\ IsSome(inp.current_time_millis)
    /\ IsNone(from_timestamp_millis(Unwrap(inp.current_time_millis)))
    => IsErrorJson(res)

\* C17: a boundary function that receives a millisecond timestamp which is
\* no valid instant returns {"error": ...} and no computed result; for
\* determine_basal's currentTimeMillis this means an invalid value is never
\* replaced by another time.
C17_InvalidTimestampIsError == EachCall(InvalidTimeRejected)

(* ------------------------------------------------------------------ *)
(* The should_enable_smb call                                          *)
(* ------------------------------------------------------------------ *)

\* the profile flags and meal data should_enable_smb reads
SmbEnableInputs ==
    [allow_smb_with_high_temptarget: BOOLEAN, temptarget_set: BOOLEAN,
     bw_found: BOOLEAN, a52_risk_enable: BOOLEAN,
     enable_smb_always: BOOLEAN, enable_smb_with_cob: BOOLEAN,
     enable_smb_after_carbs: BOOLEAN, enable_smb_with_temptarget: BOOLEAN,
     enable_smb_high_bg: BOOLEAN, enable_smb_high_bg_target: {110},
     meal_cob: {0, 20}, carbs: {0, 30}]

SmbEnableCalls ==
    [fn: {"should_enable_smb"}, inp: SmbEnableInputs,
     micro_bolus_allowed: BOOLEAN, bg: {109, 110}, target_bg: {90, 100, 110}]

InitSmbEnable ==
    /\ inputs = None /\ inputs2 = None
    /\ result = None /\ result2 = None
    /\ ticks = 0
    /\ pc = "idle"
    /\ as_in = None /\ as_out = None
    /\ cob_in = None /\ cob_out = None
    /\ call \in SmbEnableCalls
    /\ ret = None

\* the host calls should_enable_smb
ShouldEnableSmb ==
    /\ IsNone(ret)
    /\ call # None
    /\ call.fn = "should_enable_smb"
    /\ ret' = Some(should_enable_smb(call.inp, call.micro_bolus_allowed,
                                     call.bg, call.target_bg))
    /\ UNCHANGED <<call, dbvars, asvars, cobvars>>

NextSmbEnable == ShouldEnableSmb

SpecSmbEnable == InitSmbEnable /\ [][NextSmbEnable]_vars

\* the two vetoes of the enable predicate
HighTempTargetVeto ==
    ~call.inp.allow_smb_with_high_temptarget /\ call.inp.temptarget_set
    /\ call.target_bg > 100

BolusWizardVeto == call.inp.bw_found /\ ~call.inp.a52_risk_enable

\* some enabling condition of the predicate holds
SomeEnable ==
    \/ call.inp.enable_smb_always
    \/ call.inp.enable_smb_with_cob /\ call.inp.meal_cob > 0
    \/ call.inp.enable_smb_after_carbs /\ call.inp.carbs > 0
    \/ call.inp.enable_smb_with_temptarget /\ call.inp.temptarget_set
       /\ call.target_bg < 100
    \/ call.inp.enable_smb_high_bg /\ call.bg >= call.inp.enable_smb_high_bg_target

\* C18: should_enable_smb is false if micro bolus is not allowed, false
\* under the high temp target veto or the bolus wizard veto (also with
\* enable_smb_always), and otherwise true exactly when one of the five
\* enabling conditions holds.
C18_EnablePredicate ==
    IsSome(ret) =>
        Unwrap(ret) = (/\ call.micro_bolus_allowed
                       /\ ~HighTempTargetVeto
                       /\ ~BolusWizardVeto
                       /\ SomeEnable)

\* a veto that overrides enable_smb_always
C18_Witness ==
    /\ IsSome(ret)
    /\ call.micro_bolus_allowed
    /\ call.inp.enable_smb_always
    /\ BolusWizardVeto
    /\ ~HighTempTargetVeto
    /\ Unwrap(ret) = FALSE

(* ------------------------------------------------------------------ *)
(* profile/targets.rs: the target range                                *)
(* Targets are in mg/dL (values below 20 are read as mmol/L).          *)
(* ------------------------------------------------------------------ *)

MmolLimit == 20
MmolFactor == 18
TargetFloor == 80
TargetCeiling == 200

\* bound_target_range(targets)
bound_target_range(targets) ==
    LET min1 == IF targets.min_bg < MmolLimit
                THEN targets.min_bg * MmolFactor ELSE targets.min_bg
        max1 == IF targets.max_bg < MmolLimit
                THEN targets.max_bg * MmolFactor ELSE targets.max_bg
    IN  [targets EXCEPT
            !.min_bg = Min(Max(min1, TargetFloor), TargetCeiling),
            !.max_bg = Min(Max(max1, TargetFloor), TargetCeiling)]

\* bg_targets_lookup(profile, _time)
bg_targets_lookup(profile) ==
    bound_target_range([min_bg |-> profile.min_bg, max_bg |-> profile.max_bg,
                        temptarget_set |-> profile.temptarget_set])

\* the profile with the bounded range in place of the configured one
with_bounded_targets(profile) ==
    [profile EXCEPT !.min_bg = bg_targets_lookup(profile).min_bg,
                    !.max_bg = bg_targets_lookup(profile).max_bg]

\* configured ranges: mmol/L, below the floor, inside, above the ceiling
TargetRanges == {<<5, 6>>, <<70, 75>>, <<100, 120>>, <<190, 250>>, <<250, 300>>}

TargetInputs ==
    { [r EXCEPT !.min_bg = t[1], !.max_bg = t[2]] @@ NoSmbFlags :
        r \in [entry: {"core"}, current_time_millis: {Some(100)}, date: {95},
               glucose: BgValues, delta: {0, 5}, iob: IobValues,
               temp_rate: {0}, temp_duration: {0},
               current_basal: {0, 900}, max_basal: {3500},
               max_iob: {2500}, min_bg: {100}, max_bg: {120}, sens: {40},
               newer_medtronic: {FALSE},
               bolus_increment: {100}, smb_delivery_ratio: {50},
               max_smb_basal_minutes: {30}, max_uam_smb_basal_minutes: {30},
               enable_smb_high_bg_target: {200}, temptarget_set: {FALSE},
               autosens_ratio: {100}, meal_cob: {0}, carbs: {0},
               bw_found: {FALSE}, micro_bolus_allowed: {FALSE}],
        t \in TargetRanges }

TargetCalls ==
    [fn: {"bg_targets_lookup", "determine_basal"}, inp: TargetInputs]

InitTargets ==
    /\ inputs = None /\ inputs2 = None
    /\ result = None /\ result2 = None
    /\ ticks = 0
    /\ pc = "idle"
    /\ as_in = None /\ as_out = None
    /\ cob_in = None /\ cob_out = None
    /\ call \in TargetCalls
    /\ ret = None

\* the host looks the target range up
BgTargetsLookup ==
    /\ IsNone(ret)
    /\ call # None
    /\ call.fn = "bg_targets_lookup"
    /\ ret' = Some(bg_targets_lookup(call.inp))
    /\ UNCHANGED <<call, dbvars, asvars, cobvars>>

\* the host invokes determine_basal on the profile
DetermineBasalOnTargets ==
    /\ IsNone(ret)
    /\ call # None
    /\ call.fn = "determine_basal"
    /\ ret' = Some(Call(call.inp, Wall))
    /\ UNCHANGED <<call, dbvars, asvars, cobvars>>

NextTargets == BgTargetsLookup \/ DetermineBasalOnTargets

SpecTargets == InitTargets /\ [][NextTargets]_vars

InTargetBounds(v) == TargetFloor <= v /\ v <= TargetCeiling

\* the range the lookup returns: mmol/L converted, then clipped
LookupClipped ==
    (call # None /\ call.fn = "bg_targets_lookup" /\ IsSome(ret)) =>
        LET t == Unwrap(ret) IN
        /\ InTargetBounds(t.min_bg) /\ InTargetBounds(t.max_bg)
        /\ call.inp.min_bg < MmolLimit =>
              t.min_bg = Min(Max(MmolFactor * call.inp.min_bg, TargetFloor),
                             TargetCeiling)

\* the target determine_basal reports lies within the bounds
ReportedTargetClipped ==
    (call # None /\ call.fn = "determine_basal" /\ IsSome(ret)) =>
        (IsSome(Unwrap(ret).target_bg) =>
            InTargetBounds(Unwrap(Unwrap(ret).target_bg)))

\* the decision is the one taken against the bounded range
DecidedOnClippedRange ==
    (call # None /\ call.fn = "determine_basal" /\ IsSome(ret)) =>
        Unwrap(ret) = Call(with_bounded_targets(call.inp), Wall)

\* C19: a bound below 20 is read as mmol/L and multiplied by 18, the range
\* is clipped to [80, 200] mg/dL, and the target_bg, min_bg and max_bg that
\* determine_basal compares eventual_bg against and reports are the clipped
\* ones, for every profile.
C19_TargetsClipped ==
    LookupClipped /\ ReportedTargetClipped /\ DecidedOnClippedRange

(* ------------------------------------------------------------------ *)
(* The schedule lookups: isf_lookup and lookup_basal_at_time           *)
(* ------------------------------------------------------------------ *)

MaxEntries == 3

\* the offsets a schedule entry starts at, in minutes after midnight
ScheduleOffsets == {0, 360, 720}

Injective(f) == \A a, b \in DOMAIN f : f[a] = f[b] => a = b

\* the orders in which entries with distinct offsets can be stored
OffsetOrders ==
    {s \in UNION {[1..n -> ScheduleOffsets] : n \in 0..MaxEntries} : Injective(s)}

\* ISF schedules: every entry has a sensitivity of its own
IsfSchedules ==
    { [k \in DOMAIN s |-> [offset |-> s[k], sensitivity |-> 30 + s[k] \div 60]] :
        s \in OffsetOrders }

\* basal schedules: every entry has a rate of its own, and the indices
\* number the entries in any order
BasalSchedules ==
    UNION { { [k \in DOMAIN s |->
                 [i |-> p[k], minutes |-> s[k], rate |-> 800 + s[k]]] :
              p \in {q \in [DOMAIN s -> 0..(Len(s) - 1)] : Injective(q)} } :
            s \in OffsetOrders }

\* the instants looked up, in minutes; the last one is no instant
LookupTimes == {0, 100, 359, 360, 400, 720, MaxInstant, MaxInstant + 1}

ScheduleCalls ==
    [fn: {"isf_lookup"}, profile: [sens: {40}, isf_profile: IsfSchedules],
     time: LookupTimes \ {MaxInstant + 1}]
    \cup
    [fn: {"lookup_basal_at_time"},
     profile: [current_basal: {1000}, basal_profile: BasalSchedules],
     time: LookupTimes]

InitSchedule ==
    /\ inputs = None /\ inputs2 = None
    /\ result = None /\ result2 = None
    /\ ticks = 0
    /\ pc = "idle"
    /\ as_in = None /\ as_out = None
    /\ cob_in = None /\ cob_out = None
    /\ call \in ScheduleCalls
    /\ ret = None

\* the caller looks the sensitivity up
IsfLookup ==
    /\ IsNone(ret)
    /\ call # None
    /\ call.fn = "isf_lookup"
    /\ ret' = Some(isf_lookup(call.profile, call.time))
    /\ UNCHANGED <<call, dbvars, asvars, cobvars>>

\* find_insulin_treatments looks the scheduled basal up
LookupBasalAtTime ==
    /\ IsNone(ret)
    /\ call # None
    /\ call.fn = "lookup_basal_at_time"
    /\ ret' = Some(lookup_basal_at_time(call.profile, call.time))
    /\ UNCHANGED <<call, dbvars, asvars, cobvars>>

NextSchedule == IsfLookup \/ LookupBasalAtTime

SpecSchedule == InitSchedule /\ [][NextSchedule]_vars

\* the minute of day of the instant looked up
MinuteOfDay(time) ==
    (IF IsSome(from_timestamp_millis(time)) THEN time ELSE Wall) % MinutesPerDay

\* entries is a set of <<offset, value>>: the value of the entry whose
\* interval contains the minute when the entries are ordered by offset, or
\* the fallback when no entry starts at midnight
IntervalValue(entries, fallback, minute) ==
    IF \A e \in entries : e[1] # 0 THEN fallback
    ELSE LET hit == CHOOSE e \in entries :
                       /\ e[1] <= minute
                       /\ \A f \in entries : f[1] <= minute => f[1] <= e[1]
         IN  hit[2]

IsfEntries(schedule) ==
    {<<schedule[k].offset, schedule[k].sensitivity>> : k \in DOMAIN schedule}

BasalEntries(schedule) ==
    {<<schedule[k].minutes, schedule[k].rate>> : k \in DOMAIN schedule}

\* the ISF lookup returns the interval's entry, or sens
IsfLookupByInterval ==
    (call # None /\ call.fn = "isf_lookup" /\ IsSome(ret)
     /\ Len(call.profile.isf_profile) > 0) =>
        Unwrap(ret) = IntervalValue(IsfEntries(call.profile.isf_profile),
                                    call.profile.sens, MinuteOfDay(call.time))

\* the basal lookup returns the interval's entry, or current_basal
BasalLookupByInterval ==
    (call # None /\ call.fn = "lookup_basal_at_time" /\ IsSome(ret)
     /\ Len(call.profile.basal_profile) > 0) =>
        Unwrap(ret) = IntervalValue(BasalEntries(call.profile.basal_profile),
                                    call.profile.current_basal,
                                    MinuteOfDay(call.time))

\* C20: a schedule lookup (the ISF lookup, and the basal lookup used when
\* temp basals are decomposed) returns the value of the entry whose interval
\* [offset, next offset or end of day) contains the minute of day, the
\* entries being ordered by offset, and returns the profile's scalar
\* fallback (sens, current_basal) when the smallest offset is not 0.
C20_ScheduleLookup == IsfLookupByInterval /\ BasalLookupByInterval

\* the basal lookup agrees with the interval rule on schedules that start at
\* midnight and whose indices follow the offsets
IndexedByOffset(schedule) ==
    /\ \A a, b \in DOMAIN schedule :
          schedule[a].i < schedule[b].i <=> schedule[a].minutes < schedule[b].minutes
    /\ \E k \in DOMAIN schedule : schedule[k].minutes = 0

BasalLookupByIntervalWhenIndexed ==
    (/\ call # None
     /\ call.fn = "lookup_basal_at_time"
     /\ IsSome(ret)
     /\ IndexedByOffset(call.profile.basal_profile)) =>
        Unwrap(ret) = IntervalValue(BasalEntries(call.profile.basal_profile),
                                    call.profile.current_basal,
                                    MinuteOfDay(call.time))

(* ------------------------------------------------------------------ *)
(* autosens/mod.rs: calculate_deviations, the loop over the buckets    *)
(* Glucose in mg/dL, deviations and carb impact in 1/100 mg/dL, carbs  *)
(* in g, meal_cob in g as a quotient, IOB in mU, rates in mU/h.        *)
(* ------------------------------------------------------------------ *)

\* the glucose below which a bucket is passed over
MinDeviationGlucose == 40
\* the glucose below which a positive deviation counts as none
LowGlucose == 80
\* COB below this counts as depleted, in halves of a gram: 0.5 g
CobDepleted == <<1, 2>>
\* the 5 hours of 5 minute steps after which a depleted meal stops excluding
MealSteps == 60
\* the steps after a meal during which a bucket counts as unannounced meal
UamSteps == 9
\* meal_start_counter before any meal
NoMealCounter == 999

\* basal_lookup(profile, time)
basal_lookup(profile, time) == profile.current_basal

\* get_active_temp_target: the most recently created target that covers
\* the time, as the sum target_top + target_bottom; none when the most
\* recent one that started is a cancellation
get_active_temp_target(temp_targets, time) ==
    LET sorted == SortSeq(temp_targets, LAMBDA a, b : a.created_at > b.created_at)
        decides(k) == \/ sorted[k].duration = 0 /\ time >= sorted[k].created_at
                      \/ /\ time >= sorted[k].created_at
                         /\ time < sorted[k].created_at + sorted[k].duration
        hits == {k \in 1..Len(sorted) : decides(k)}
        k0   == CHOOSE k \in hits : \A j \in hits : k <= j
    IN  IF hits = {} THEN None
        ELSE IF sorted[k0].duration = 0 THEN None
        ELSE Some(sorted[k0].target_top + sorted[k0].target_bottom)

\* the while loop that adds the meals older than the bucket: the stack is
\* in ascending order of time and its last element is looked at
RECURSIVE add_meals(_, _)
add_meals(st, bg_time) ==
    IF Len(st.meals_stack) = 0 THEN st
    ELSE LET top == st.meals_stack[Len(st.meals_stack)] IN
         IF top.time < bg_time
         THEN add_meals([st EXCEPT
                  !.meal_cob = RatAdd(@, <<top.carbs, 1>>),
                  !.meal_carbs = @ + top.carbs,
                  !.meals_stack = SubSeq(@, 1, Len(@) - 1)], bg_time)
         ELSE st

\* deviation = delta - bgi, none when positive below 80 mg/dL
bucket_deviation(bg, last_bg, bgi) ==
    LET deviation == 100 * (bg - last_bg) - bgi
    IN  IF bg < LowGlucose /\ deviation > 0 THEN 0 ELSE deviation

\* the carbs absorbed in the interval: meal_cob after the meals were added
\* and max(deviation, min_5m_carbimpact) * carb_ratio / sens was taken off
absorb_carbs(profile, st, deviation, sens, bg_time) ==
    LET added == add_meals(st, bg_time)
        ci == Max(deviation, profile.min_5m_carbimpact)
        absorbed == Rat(ci * profile.carb_ratio, 100 * sens)
        left == RatSub(added.meal_cob, absorbed)
    IN  IF added.meal_cob[1] > 0
        THEN [added EXCEPT !.meal_cob = IF left[1] < 0 THEN <<0, 1>> ELSE left]
        ELSE added

\* the five hour rule with the COB test the wrong way round: it fires
\* only while COB is left
five_hour_rule_on_cob(st) ==
    st.meal_start_counter > MealSteps /\ RatLeq(CobDepleted, st.meal_cob)

\* the 5 hour rule: the counter is past 60 and the COB is depleted
five_hour_rule(st) ==
    st.meal_start_counter > MealSteps /\ ~RatLeq(CobDepleted, st.meal_cob)

\* the carb absorption branch
carb_absorption_branch(st, deviation) ==
    LET absorbing == deviation > 0 /\ ~five_hour_rule(st)
    IN  [st EXCEPT
            !.absorbing = absorbing,
            !.meal_carbs = IF ~absorbing /\ ~RatLeq(CobDepleted, st.meal_cob)
                           THEN 0 ELSE @,
            !.meal_start_counter = IF st.current_type # "CarbAbsorption"
                                   THEN 1 ELSE @ + 1,
            !.current_type = "CarbAbsorption"]

\* the other branch: unannounced meal, or no meal
uam_branch(profile, config, st, deviation, iob, bg_time) ==
    IF \/ ~config.retrospective /\ iob > 2 * basal_lookup(profile, bg_time)
       \/ st.uam
       \/ st.meal_start_counter < UamSteps
    THEN [st EXCEPT !.meal_start_counter = @ + 1,
                    !.uam = deviation > 0,
                    !.current_type = "Uam"]
    ELSE [st EXCEPT !.current_type = "NonMeal"]

\* the deviation type of the bucket and the state it leaves
classify(profile, config, st, deviation, iob, bg_time) ==
    IF st.meal_cob[1] > 0 \/ st.absorbing \/ st.meal_carbs > 0
    THEN carb_absorption_branch(st, deviation)
    ELSE uam_branch(profile, config, st, deviation, iob, bg_time)

\* the first five minutes of an even hour
even_hour_start(time) ==
    LET m == time % MinutesPerDay IN m % 60 < 5 /\ (m \div 60) % 2 = 0

pushed_deviations_of_any_type(profile, temp_targets, current_type, deviation, bg_time) ==
    <<deviation>> \o (IF even_hour_start(bg_time) THEN <<0>> ELSE <<>>)

\* what the bucket appends to the deviations
pushed_deviations(profile, temp_targets, current_type, deviation, bg_time) ==
    LET tt == get_active_temp_target(temp_targets, bg_time)
    IN  (IF current_type = "NonMeal"
         THEN <<deviation>>
              \o (IF /\ profile.exercise_mode
                        \/ profile.high_temptarget_raises_sensitivity
                     /\ IsSome(tt)
                     /\ Unwrap(tt) > 200
                  THEN <<-(((Unwrap(tt) - 200) * 5) \div 2)>>
                  ELSE <<>>)
         ELSE <<>>)
        \o (IF even_hour_start(bg_time) THEN <<0>> ELSE <<>>)

\* deviations.remove(0) once when the list is longer than lookback
keep_last(deviations, lookback) ==
    IF Len(deviations) > lookback THEN Tail(deviations) ELSE deviations

\* the locals of calculate_deviations before the loop; recent holds the
\* glucose of the three buckets before bucket i
deviation_loop_start(meals, recent) ==
    [i |-> 3, recent |-> recent, deviations |-> <<>>,
     meal_cob |-> <<0, 1>>, meal_carbs |-> 0,
     absorbing |-> FALSE, uam |-> FALSE,
     meal_start_counter |-> NoMealCounter, current_type |-> "NonMeal",
     meals_stack |-> meals]

\* one iteration of the loop on bucket i: its glucose, and the IOB and BGI
\* that calculate_iob_at_time gives at its time
deviation_loop_body(profile, config, temp_targets, st, bucket, bg_millis, wall) ==
    LET bg      == bucket.glucose
        last_bg == st.recent[3]
        old_bg  == st.recent[1]
        moved   == [st EXCEPT !.i = @ + 1, !.recent = Tail(@) \o <<bg>>]
        bg_time == IF IsSome(from_timestamp_millis(bg_millis))
                   THEN bg_millis ELSE wall
        sens    == isf_lookup(profile, bg_time)
        deviation == bucket_deviation(bg, last_bg, bucket.bgi)
        typed   == classify(profile, config,
                            absorb_carbs(profile, moved, deviation, sens, bg_millis),
                            deviation, bucket.iob, bg_time)
    IN  IF bg < MinDeviationGlucose \/ old_bg < MinDeviationGlucose
           \/ last_bg < MinDeviationGlucose
        THEN moved
        ELSE [typed EXCEPT
                !.deviations =
                    keep_last(@ \o pushed_deviations(profile, temp_targets,
                                      typed.current_type, deviation, bg_time),
                              config.lookback)]

(* ------------------------------------------------------------------ *)
(* The deviation loop, bucket by bucket                                *)
(* ------------------------------------------------------------------ *)

\* the number of buckets of a short series
MaxBuckets == 6
\* the number of buckets of a series that outlasts the 5 hour rule
LongRun == 70
\* the time of bucket 0, in minutes
FirstBucket == 100

\* what calculate_iob_at_time returns at a bucket: the IOB, and the BGI
\* round(-activity * sens * 5, 2) that follows from the activity
IobCalcs == {[iob |-> 0, bgi |-> 0], [iob |-> 3000, bgi |-> -150]}

Meal(time, carbs) == [time |-> time, carbs |-> carbs]

\* find_meal_treatments: the meals in ascending order of time
MealLists ==
    { <<>>,
      <<Meal(FirstBucket + 12, 1)>>,
      <<Meal(FirstBucket + 12, 20)>>,
      <<Meal(FirstBucket + 12, 1), Meal(FirstBucket + 500, 20)>> }

TempTargetLists ==
    { <<>>,
      <<[created_at |-> 0, duration |-> 600,
         target_top |-> 140, target_bottom |-> 140]>> }

ShortCalls ==
    [fn: {"calculate_deviations"},
     profile: [sens: {40}, isf_profile: {<<>>}, min_5m_carbimpact: {300},
               carb_ratio: {10}, current_basal: {1000},
               exercise_mode: BOOLEAN,
               high_temptarget_raises_sensitivity: {FALSE}],
     config: [lookback: {1, 2}, retrospective: BOOLEAN],
     temp_targets: TempTargetLists,
     meals: MealLists,
     start: {FirstBucket},
     n_buckets: {MaxBuckets},
     glucose: {{39, 70, 104}},
     iob_calcs: {IobCalcs}]

\* long series of flat glucose with much insulin on board: the deviation is
\* 0, or positive under active insulin; without a minimal carb impact the
\* deviation is 0 throughout
LongCallsOf(min_5m_carbimpact, calcs) ==
    [fn: {"calculate_deviations"},
     profile: [sens: {40}, isf_profile: {<<>>},
               min_5m_carbimpact: {min_5m_carbimpact},
               carb_ratio: {10}, current_basal: {1000},
               exercise_mode: {FALSE},
               high_temptarget_raises_sensitivity: {FALSE}],
     config: [lookback: {1}, retrospective: {FALSE}],
     temp_targets: {<<>>},
     meals: {<<Meal(FirstBucket + 12, 3)>>},
     start: {FirstBucket},
     n_buckets: {LongRun},
     glucose: {{100}},
     iob_calcs: {calcs}]

LongCalls ==
    LongCallsOf(300, {[iob |-> 3000, bgi |-> 0], [iob |-> 3000, bgi |-> -400]})
    \cup LongCallsOf(0, {[iob |-> 3000, bgi |-> 0]})

\* the state of the loop, what its last iteration did, and two counts kept
\* alongside: the classified buckets in a row that ended with meal_cob
\* below 0.5 (counted up to 61), and the classified buckets since the last
\* one in carb absorption (counted up to 9, -1 when there was none)
loop_start(c) ==
    [st |-> deviation_loop_start(c.meals, <<100, 100, 100>>),
     last |-> None, low_cob_run |-> 0, since_absorbing |-> -1,
     done |-> FALSE]

InitDeviationsOf(calls) ==
    /\ inputs = None /\ inputs2 = None
    /\ result = None /\ result2 = None
    /\ ticks = 0
    /\ pc = "idle"
    /\ as_in = None /\ as_out = None
    /\ cob_in = None /\ cob_out = None
    /\ call \in calls
    /\ ret = loop_start(call)

InitDeviations == InitDeviationsOf(ShortCalls)

bucket_millis(c, i) == c.start + 5 * i

\* the loop state of bucket i at the test of the deviation type
at_type_test(c, st, bucket) ==
    LET bg_millis == bucket_millis(c, st.i) IN
    absorb_carbs(c.profile, st,
                 bucket_deviation(bucket.glucose, st.recent[3], bucket.bgi),
                 isf_lookup(c.profile, bg_millis), bg_millis)

\* the loop processes the next bucket
ProcessBucket ==
    /\ call # None
    /\ call.fn = "calculate_deviations"
    /\ ~ret.done
    /\ ret.st.i < call.n_buckets
    /\ \E g \in call.glucose, calc \in call.iob_calcs :
          LET bucket == [glucose |-> g, iob |-> calc.iob, bgi |-> calc.bgi]
              st     == ret.st
              bg_millis == bucket_millis(call, st.i)
              next   == deviation_loop_body(call.profile, call.config,
                            call.temp_targets, st, bucket, bg_millis, Wall)
              classified == /\ g >= MinDeviationGlucose
                            /\ st.recent[1] >= MinDeviationGlucose
                            /\ st.recent[3] >= MinDeviationGlucose
              deviation == bucket_deviation(g, st.recent[3], bucket.bgi)
              test   == at_type_test(call, st, bucket)
          IN  ret' =
                [st |-> next,
                 last |-> Some([classified |-> classified,
                                bg_time |-> bg_millis,
                                bucket |-> bucket,
                                deviation |-> deviation,
                                test |-> test,
                                pushed |-> IF classified
                                           THEN pushed_deviations(call.profile,
                                                    call.temp_targets,
                                                    next.current_type,
                                                    deviation, bg_millis)
                                           ELSE <<>>,
                                low_cob_before |-> ret.low_cob_run,
                                since_absorbing_before |-> ret.since_absorbing]),
                 low_cob_run |->
                    IF ~classified THEN ret.low_cob_run
                    ELSE IF ~RatLeq(CobDepleted, next.meal_cob)
                    THEN Min(ret.low_cob_run + 1, MealSteps + 1) ELSE 0,
                 since_absorbing |->
                    IF ~classified THEN ret.since_absorbing
                    ELSE IF next.current_type = "CarbAbsorption" THEN 0
                    ELSE IF ret.since_absorbing < 0 THEN -1
                    ELSE Min(ret.since_absorbing + 1, UamSteps),
                 done |-> FALSE]
    /\ UNCHANGED <<call, dbvars, asvars, cobvars>>

\* after the last bucket the list is padded and returned
FinishDeviations ==
    /\ call # None
    /\ call.fn = "calculate_deviations"
    /\ ~ret.done
    /\ ret.st.i >= call.n_buckets
    /\ ret' = [ret EXCEPT !.done = TRUE,
                          !.st.deviations = pad_deviations(@)]
    /\ UNCHANGED <<call, dbvars, asvars, cobvars>>

NextDeviations == ProcessBucket \/ FinishDeviations

SpecDeviations == InitDeviations /\ [][NextDeviations]_vars

\* the loop on the long series; the loop never stops before the last bucket
InitLongDeviations == InitDeviationsOf(LongCalls)

SpecLongDeviations ==
    InitLongDeviations /\ [][NextDeviations]_vars /\ WF_vars(NextDeviations)

\* the last iteration classified its bucket
Classified == call # None /\ ~ret.done /\ IsSome(ret.last)
              /\ Unwrap(ret.last).classified

Last == Unwrap(ret.last)

(* ------------------------------------------------------------------ *)
(* C21: the deviation types and what they contribute                   *)
(* ------------------------------------------------------------------ *)

\* carb absorption exactly when COB is left, or the latch is set, or meal
\* carbs are counted
AbsorbingExactly ==
    Classified =>
        (ret.st.current_type = "CarbAbsorption"
         <=> \/ Last.test.meal_cob[1] > 0
             \/ Last.test.absorbing
             \/ Last.test.meal_carbs > 0)

\* a bucket in carb absorption or unannounced meal appends nothing but the
\* 0 of an even hour
ExcludedAppendNothing ==
    (Classified /\ ret.st.current_type # "NonMeal") =>
        /\ Last.pushed \in {<<>>, <<0>>}
        /\ Last.pushed = <<0>> => even_hour_start(Last.bg_time)

\* the measured deviation appended is the one of a bucket of no meal
MeasuredFromNonMeal ==
    (Classified /\ ret.st.current_type = "NonMeal") =>
        /\ Len(Last.pushed) >= 1
        /\ Last.pushed[1] = Last.deviation

\* C21: a bucket is classified CarbAbsorbing exactly when meal_cob > 0, the
\* absorbing latch is set or meal_carbs > 0; a bucket classified
\* CarbAbsorbing or UAM contributes no measured and no temp-target
\* deviation, at most the 0.0 of an even hour; the measured deviations of
\* the list come from buckets classified NonMeal.
C21_ExcludedContributeNothing ==
    AbsorbingExactly /\ ExcludedAppendNothing /\ MeasuredFromNonMeal

\* a bucket in carb absorption at an even hour under a temp target, and a
\* bucket of unannounced meal with a deviation
C21_Witness ==
    /\ Classified
    /\ ret.st.current_type = "CarbAbsorption"
    /\ Last.pushed = <<0>>
    /\ Last.deviation # 0
    /\ Len(call.temp_targets) > 0 /\ call.profile.exercise_mode

UamWithDeviation ==
    Classified /\ ret.st.current_type = "Uam" /\ Last.deviation > 0
    /\ Last.pushed = <<>>

(* ------------------------------------------------------------------ *)
(* C22: the 5 hour rule                                                *)
(* ------------------------------------------------------------------ *)

\* the last bucket had a positive deviation and the 5 hour rule cleared
\* the latch all the same
LatchForcedOff ==
    /\ Classified
    /\ ret.st.current_type = "CarbAbsorption"
    /\ Last.deviation > 0
    /\ five_hour_rule(Last.test)

\* C22: the absorbing latch is forced off by the 5 hour rule only at a
\* bucket preceded by more than 60 consecutive buckets with meal_cob < 0.5.
C22_LatchOffAfterSixtyLowCobSteps ==
    LatchForcedOff => Last.low_cob_before > MealSteps

\* the rule never fires before the counter of the meal passed 60
LatchOffAfterCounterPassedSixty ==
    LatchForcedOff => Last.test.meal_start_counter > MealSteps

(* ------------------------------------------------------------------ *)
(* C23: unannounced meal or no meal                                    *)
(* ------------------------------------------------------------------ *)

\* IOB above twice the scheduled basal at the last bucket
HighIob ==
    Last.bucket.iob > 2 * basal_lookup(call.profile, Last.bg_time)

\* fewer than 9 buckets from the last bucket in carb absorption to the
\* last bucket
SoonAfterAbsorbing ==
    /\ Last.since_absorbing_before >= 0
    /\ Last.since_absorbing_before + 1 < UamSteps

\* C23: a bucket that is not in carb absorption is classified UAM if and
\* only if IOB > 2 * current_basal at that bucket, or the previous bucket
\* was classified UAM, or fewer than 9 buckets have elapsed since the last
\* bucket classified CarbAbsorbing; otherwise it is classified NonMeal.
C23_UamExactly ==
    (Classified /\ ret.st.current_type # "CarbAbsorption") =>
        /\ ret.st.current_type \in {"Uam", "NonMeal"}
        /\ ret.st.current_type = "Uam"
           <=> \/ HighIob
               \/ Last.test.current_type = "Uam"
               \/ SoonAfterAbsorbing

\* the same with the test the loop makes: the IOB counts outside the
\* retrospective mode only, the previous bucket counts when it was UAM
\* with a positive deviation, and the counter of the meal is below 9
UamByFlagAndCounter ==
    (Classified /\ ret.st.current_type # "CarbAbsorption") =>
        (ret.st.current_type = "Uam"
         <=> \/ ~call.config.retrospective /\ HighIob
             \/ Last.test.uam
             \/ Last.test.meal_start_counter < UamSteps)

\* without the retrospective mode, a bucket is UAM whenever the IOB is high
UamOnHighIob ==
    (Classified /\ ret.st.current_type # "CarbAbsorption"
     /\ ~call.config.retrospective /\ HighIob) =>
        ret.st.current_type = "Uam"

(* ------------------------------------------------------------------ *)
(* C24: the length of the list                                         *)
(* ------------------------------------------------------------------ *)

\* C24: after every bucket the deviation list holds at most lookback
\* entries, also after a bucket that appends more than one value.
C24_AtMostLookback ==
    (call # None /\ ~ret.done /\ IsSome(ret.last)) =>
        Len(ret.st.deviations) <= call.config.lookback

\* after a bucket that appends at most one value, a list within lookback
\* stays within lookback
AtMostLookbackBySingles ==
    (Classified /\ Len(Last.pushed) <= 1
     /\ Len(Last.test.deviations) <= call.config.lookback) =>
        Len(ret.st.deviations) <= call.config.lookback

(* ------------------------------------------------------------------ *)
(* Bucketing a series with close readings and gaps                     *)
(* ------------------------------------------------------------------ *)

\* the number of readings of a series
MaxGapReadings == 3
\* the date of the most recent reading, in minutes
GapClock == 1000
\* the minutes between neighbouring readings
ReadingGaps == {1, 2, 5, 20, 250}
\* the glucose of a reading; 38 is below the valid range
ReadingValues == {38, 100, 130}

\* the dates of n readings, most recent first, gaps[k] minutes apart
RECURSIVE DateBefore(_, _)
DateBefore(gaps, k) == IF k = 1 THEN GapClock ELSE DateBefore(gaps, k - 1) - gaps[k - 1]

\* the longest gap goes with flat glucose, which keeps the interpolated
\* quotients small
FlatOverLongGap(gaps, values) ==
    (\E k \in DOMAIN gaps : gaps[k] > MaxFillMinutes)
        => \A k \in DOMAIN values : values[k] = values[1]

\* series with the most recent reading first
IrregularSeries ==
    UNION { { [k \in 1..n |-> [date |-> DateBefore(w[1], k), glucose |-> w[2][k]]] :
              w \in {v \in [1..(n - 1) -> ReadingGaps] \X [1..n -> ReadingValues] :
                        FlatOverLongGap(v[1], v[2])} } :
            n \in 1..MaxGapReadings }

GapCalls ==
    [fn: {"bucket_glucose_data", "bucket_glucose_data_for_autosens"},
     glucose_data: IrregularSeries,
     meal_millis: {0},
     max_absorption_hours: {24},
     last_site_change: {0}]

InitGaps ==
    /\ inputs = None /\ inputs2 = None
    /\ result = None /\ result2 = None
    /\ ticks = 0
    /\ pc = "idle"
    /\ as_in = None /\ as_out = None
    /\ cob_in = None /\ cob_out = None
    /\ call \in GapCalls
    /\ ret = None

\* the series is bucketed
BucketSeries ==
    /\ IsNone(ret)
    /\ call # None
    /\ call.fn \in {"bucket_glucose_data", "bucket_glucose_data_for_autosens"}
    /\ ret' = Some(bucket_routine(call.glucose_data))
    /\ UNCHANGED <<call, dbvars, asvars, cobvars>>

NextGaps == BucketSeries

SpecGaps == InitGaps /\ [][NextGaps]_vars

Bucketed == call # None /\ IsSome(ret)

AllValid(g) == \A k \in DOMAIN g : g[k].glucose >= MinValidGlucose

\* the minutes between reading k and reading k + 1
GapAfter(g, k) ==
    IF g[k].date >= g[k + 1].date THEN g[k].date - g[k + 1].date
    ELSE g[k + 1].date - g[k].date

(* ------------------------------------------------------------------ *)
(* C25: gaps in the autosens series                                    *)
(* ------------------------------------------------------------------ *)

\* C25: autosens bucketing fills a gap of more than 8 minutes (up to the
\* 4 hour cap) between two valid readings with 5 minute buckets as COB
\* bucketing does, so that adjacent buckets of the autosens series are
\* never more than 8 minutes apart within a filled gap.
C25_AutosensGapsFilled ==
    (/\ Bucketed
     /\ call.fn = "bucket_glucose_data_for_autosens"
     /\ AllValid(call.glucose_data)
     /\ \A k \in 1..(Len(call.glucose_data) - 1) :
           GapAfter(call.glucose_data, k) <= MaxFillMinutes) =>
        \A k \in 1..(Len(Unwrap(ret)) - 1) : GapAfter(Unwrap(ret), k) <= 8

\* the autosens buckets are readings of the series: none is interpolated
AutosensBucketsAreReadings ==
    (Bucketed /\ call.fn = "bucket_glucose_data_for_autosens") =>
        \A k \in DOMAIN Unwrap(ret) :
            \E j \in DOMAIN call.glucose_data :
                call.glucose_data[j].date = Unwrap(ret)[k].date

(* ------------------------------------------------------------------ *)
(* C26: close readings                                                 *)
(* ------------------------------------------------------------------ *)

RECURSIVE SumGlucose(_, _)
SumGlucose(g, n) == IF n = 0 THEN 0 ELSE g[n].glucose + SumGlucose(g, n - 1)

\* every reading is less than 2 minutes from its predecessor
AllClose(g) == \A k \in 1..(Len(g) - 1) : GapAfter(g, k) < 2

\* every reading is 2 to 8 minutes from its predecessor
AllApart(g) ==
    \A k \in 1..(Len(g) - 1) : GapAfter(g, k) >= 2 /\ GapAfter(g, k) <= 8

\* readings that are all merged give one bucket with their mean
MergedIsMean ==
    (Bucketed /\ AllValid(call.glucose_data) /\ AllClose(call.glucose_data)) =>
        /\ Len(Unwrap(ret)) = 1
        /\ Unwrap(ret)[1].glucose
             = Rat(SumGlucose(call.glucose_data, Len(call.glucose_data)),
                   Len(call.glucose_data))

\* readings 2 to 8 minutes apart give a bucket each
ApartIsOwnBucket ==
    (Bucketed /\ AllValid(call.glucose_data) /\ AllApart(call.glucose_data)) =>
        /\ Len(Unwrap(ret)) = Len(call.glucose_data)
        /\ \A k \in DOMAIN Unwrap(ret) :
              \E j \in DOMAIN call.glucose_data :
                  /\ call.glucose_data[j].date = Unwrap(ret)[k].date
                  /\ <<call.glucose_data[j].glucose, 1>> = Unwrap(ret)[k].glucose

\* C26: readings that are each less than 2 minutes from their predecessor
\* are merged into one bucket whose glucose is the arithmetic mean of all
\* of them, for any number of merged readings, and a reading 2 to 8
\* minutes from its predecessor is emitted as its own new bucket.
C26_MergeByMean == MergedIsMean /\ ApartIsOwnBucket

\* two close readings give their mean
MergedPairIsMean ==
    (Len(call.glucose_data) = 2) => MergedIsMean

\* readings more than 2 and at most 8 minutes apart give a bucket each
StrictlyApartIsOwnBucket ==
    (\A k \in 1..(Len(call.glucose_data) - 1) :
        GapAfter(call.glucose_data, k) > 2) => ApartIsOwnBucket

(* ------------------------------------------------------------------ *)
(* C27: the fill buckets of COB bucketing                              *)
(* ------------------------------------------------------------------ *)

\* the most fill buckets of one gap
MaxFillBuckets == MaxFillMinutes \div 5

\* the series without its readings below 39 mg/dL
RECURSIVE valid_readings(_)
valid_readings(g) ==
    IF Len(g) = 0 THEN <<>>
    ELSE (IF Head(g).glucose >= MinValidGlucose THEN <<Head(g)>> ELSE <<>>)
         \o valid_readings(Tail(g))

\* two valid readings prev and cur more than 8 minutes apart
OneGap ==
    /\ Bucketed
    /\ call.fn = "bucket_glucose_data"
    /\ Len(call.glucose_data) = 2
    /\ AllValid(call.glucose_data)
    /\ GapAfter(call.glucose_data, 1) > 8

Between(v, a, b) == (a <= v /\ v <= b) \/ (b <= v /\ v <= a)

\* the k-th fill bucket is round(prev + (5k / gap) * (cur - prev)) and
\* lies between prev and cur; at most 48 of them
FillsAreLinear ==
    OneGap =>
        LET prev  == call.glucose_data[1].glucose
            cur   == call.glucose_data[2].glucose
            gap   == GapAfter(call.glucose_data, 1)
            fills == Tail(Unwrap(ret))
        IN  /\ Len(fills) <= MaxFillBuckets
            /\ \A k \in DOMAIN fills :
                  /\ fills[k].glucose
                       = <<RoundDiv(prev * gap + 5 * k * (cur - prev), gap), 1>>
                  /\ Between(fills[k].glucose[1], prev, cur)

\* readings below 39 are discarded: bucketing the series gives what
\* bucketing its valid readings gives
InvalidDiscarded ==
    (Bucketed /\ call.fn = "bucket_glucose_data") =>
        Unwrap(ret) = bucket_routine(valid_readings(call.glucose_data))

\* C27: the k-th fill bucket of a gap of more than 8 minutes between prev
\* and cur is the rounded linear interpolation prev + (5k / gap) * (cur -
\* prev), so every fill bucket lies between prev and cur inclusive, at most
\* 48 fill buckets are produced per gap, and only valid readings
\* (glucose >= 39) are used as prev or cur.
C27_FillsInterpolateLinearly == FillsAreLinear /\ InvalidDiscarded

\* at most 48 fill buckets per gap
FillsAtMostFortyEight ==
    OneGap => Len(Unwrap(ret)) - 1 <= MaxFillBuckets

\* the first fill bucket is the linear interpolation
FirstFillIsLinear ==
    OneGap =>
        LET prev == call.glucose_data[1].glucose
            cur  == call.glucose_data[2].glucose
            gap  == Min(GapAfter(call.glucose_data, 1), MaxFillMinutes)
        IN  Unwrap(ret)[2].glucose
              = <<RoundDiv(prev * gap + 5 * (cur - prev), gap), 1>>

(* ------------------------------------------------------------------ *)
(* iob::calculate: the last temp basal and the last bolus of sample 0  *)
(* ------------------------------------------------------------------ *)

\* an RFC 3339 string naming the instant at, and a string that names none
Rfc3339(at) == [rfc3339 |-> at]
Garbled == [garbled |-> TRUE]

\* DateTime::parse_from_rfc3339(s), then timestamp_millis()
parse_from_rfc3339(s) == IF "rfc3339" \in DOMAIN s THEN Some(s.rfc3339) ELSE None

\* TempBasalState::default()
TempBasalStateDefault == [date |-> 0, duration |-> 0, rate |-> None]

\* one iteration of the tracking loop of calculate
track_treatment(acc, treatment) ==
    LET insulin    == treatment_field(treatment, "insulin")
        started_at == treatment_field(treatment, "started_at")
        rate       == treatment_field(treatment, "rate")
        duration   == treatment_field(treatment, "duration")
        parsed     == IF IsSome(started_at) THEN parse_from_rfc3339(Unwrap(started_at))
                      ELSE None
        last_bolus_time ==
            IF IsSome(insulin) /\ Unwrap(insulin)[1] > 0 /\ IsSome(parsed)
            THEN Max(acc.last_bolus_time, Unwrap(parsed))
            ELSE acc.last_bolus_time
        last_temp ==
            IF IsSome(rate) /\ IsSome(duration)
               /\ effective_date(treatment) > acc.last_temp.date
            THEN [date |-> effective_date(treatment),
                  duration |-> unwrap_or_zero(duration), rate |-> rate]
            ELSE acc.last_temp
    IN  [last_bolus_time |-> last_bolus_time, last_temp |-> last_temp]

RECURSIVE track_treatments(_, _)
track_treatments(acc, treatments) ==
    IF Len(treatments) = 0 THEN acc
    ELSE track_treatments(track_treatment(acc, Head(treatments)), Tail(treatments))

\* the samples calculate returns: 4 hours of 5 minute intervals
IobSamples == 48

\* calculate: the number of samples and the two fields of sample 0
calculate(profile, history, clock, current_iob_only) ==
    LET treatments == find_insulin_treatments(profile, history, clock, 0)
        tracked    == track_treatments([last_bolus_time |-> 0,
                                        last_temp |-> TempBasalStateDefault],
                                       treatments)
        i_stop     == IF current_iob_only THEN 1 ELSE IobSamples
    IN  [samples |-> i_stop,
         last_bolus_time |-> IF tracked.last_bolus_time > 0
                             THEN Some(tracked.last_bolus_time) ELSE None,
         last_temp |-> IF tracked.last_temp.date > 0
                       THEN Some(tracked.last_temp) ELSE None]

\* Treatment::temp_basal(rate, duration, timestamp)
TreatmentTempBasal(rate, duration, at) ==
    [date |-> at, insulin |-> None, rate |-> Some(rate), duration |-> Some(duration),
     timestamp |-> Some(Rfc3339(at)), started_at |-> Some(Rfc3339(at))]

\* Treatment::bolus(insulin, timestamp)
TreatmentBolus(insulin, at) ==
    [date |-> at, insulin |-> Some(insulin), rate |-> None, duration |-> None,
     timestamp |-> Some(Rfc3339(at)), started_at |-> Some(Rfc3339(at))]

\* a bolus of a history that carries its date and a started_at string
\* the pump wrote in another format
GarbledBolus(insulin, at) ==
    [date |-> at, insulin |-> Some(insulin), rate |-> None, duration |-> None,
     timestamp |-> None, started_at |-> Some(Garbled)]

\* the events: boluses of 1.5 U and temp basals of 30 minutes, 10, 40
\* and 200 minutes before the call (DIA is 3 hours)
IobEvents ==
    UNION { { TreatmentTempBasal(rate, 30, HistoryClock - ago) : rate \in {0, 2000} }
            \cup { TreatmentBolus(1500, HistoryClock - ago),
                   BolusEvent(HistoryClock - ago, 1500),
                   GarbledBolus(1500, HistoryClock - ago) } :
            ago \in {10, 40, 200} }

\* the histories: up to two events, in either order
IobHistories ==
    { <<>> } \cup { <<e>> : e \in IobEvents }
             \cup { <<e, f>> : e \in IobEvents, f \in IobEvents }

CalculateCalls ==
    [fn: {"calculate"}, profile: HistoryProfiles, history: IobHistories,
     clock: {HistoryClock}, current_iob_only: BOOLEAN]

InitCalculate ==
    /\ inputs = None /\ inputs2 = None
    /\ result = None /\ result2 = None
    /\ ticks = 0
    /\ pc = "idle"
    /\ as_in = None /\ as_out = None
    /\ cob_in = None /\ cob_out = None
    /\ call \in CalculateCalls
    /\ ret = None

\* the host calls iob::calculate
Calculate ==
    /\ IsNone(ret)
    /\ call # None
    /\ call.fn = "calculate"
    /\ ret' = Some(calculate(call.profile, call.history, call.clock,
                             call.current_iob_only))
    /\ UNCHANGED <<call, dbvars, asvars, cobvars>>

NextCalculate == Calculate

SpecCalculate == InitCalculate /\ [][NextCalculate]_vars

\* calculate has returned
Calculated == call # None /\ call.fn = "calculate" /\ IsSome(ret)

\* the events of the history within DIA before the call
WithinDia ==
    { k \in 1..Len(call.history) :
        /\ call.history[k].date >= call.clock - effective_dia(call.profile) * 60
        /\ call.history[k].date <= call.clock }

\* the temp basals and the positive boluses among them
TempBasalsWithinDia ==
    { k \in WithinDia : IsSome(call.history[k].rate) /\ IsSome(call.history[k].duration) }

BolusesWithinDia ==
    { k \in WithinDia : IsSome(call.history[k].insulin)
                        /\ Unwrap(call.history[k].insulin) > 0 }

\* the latest date among the events ks of the history
LatestDate(ks) ==
    LET latest == CHOOSE k \in ks : \A j \in ks : call.history[j].date <= call.history[k].date
    IN  call.history[latest].date

\* sample 0 carries the most recent temp basal of the history within DIA
LastTempRecorded ==
    Calculated /\ TempBasalsWithinDia # {} =>
        /\ IsSome(Unwrap(ret).last_temp)
        /\ Unwrap(Unwrap(ret).last_temp).date = LatestDate(TempBasalsWithinDia)

\* sample 0 carries the time of the most recent positive bolus
LastBolusTimeRecorded ==
    Calculated /\ BolusesWithinDia # {} =>
        Unwrap(ret).last_bolus_time = Some(LatestDate(BolusesWithinDia))

\* C28: sample 0 of iob::calculate records the last_temp (the most recent
\* temp basal of the history within DIA) and the last_bolus_time (the most
\* recent positive bolus): whenever the history holds such an event the
\* field is present and refers to the most recent one.
C28_LastTempAndBolusRecorded == LastTempRecorded /\ LastBolusTimeRecorded

\* what the code gives: no last_temp at all, and the last_bolus_time of
\* the boluses whose started_at or timestamp parses
LastTempNeverRecorded == Calculated => IsNone(Unwrap(ret).last_temp)

ParsedBolusesWithinDia ==
    { k \in BolusesWithinDia :
        LET s == started_at_or_timestamp(call.history[k])
        IN  IsSome(s) /\ IsSome(parse_from_rfc3339(Unwrap(s))) }

LastBolusTimeOfParsed ==
    Calculated =>
        Unwrap(ret).last_bolus_time =
            IF ParsedBolusesWithinDia = {} THEN None
            ELSE Some(LatestDate(ParsedBolusesWithinDia))

(* ------------------------------------------------------------------ *)
(* C29: the meals older than the bucket                                *)
(* ------------------------------------------------------------------ *)

\* the meals of the call older than the last bucket, and the meals the
\* loop has taken off its stack by then
MealsBefore(time) == { k \in 1..Len(call.meals) : call.meals[k].time < time }

MealsAdded == { k \in 1..Len(call.meals) : k > Len(ret.st.meals_stack) }

\* C29: when a bucket at time T is classified, every meal (carbs >= 1 g)
\* with time < T has been added to meal_cob and meal_carbs exactly once,
\* for any number and order of meals, also while a later meal still lies
\* in the future of T.
C29_MealsBeforeBucketAdded ==
    Classified => MealsAdded = MealsBefore(Last.bg_time)

\* with one meal in the window it holds
SingleMealAdded ==
    Classified /\ Len(call.meals) <= 1 => MealsAdded = MealsBefore(Last.bg_time)

\* a meal is never added twice, nor before its time
AddedOnlyBefore ==
    Classified => MealsAdded \subseteq MealsBefore(Last.bg_time)

(* ------------------------------------------------------------------ *)
(* C30: carb absorption ends                                           *)
(* ------------------------------------------------------------------ *)

\* every interval absorbs carbs: min_5m_carbimpact * carb_ratio / sens > 0
AbsorbsEveryInterval ==
    call.profile.min_5m_carbimpact * call.profile.carb_ratio > 0
    /\ isf_lookup(call.profile, call.start) > 0

\* the last bucket was classified as carb absorption, every meal of the
\* call has been added, and the series goes on for another 60 buckets and
\* the few that absorb the meal
AbsorbingWithBucketsLeft ==
    /\ Classified
    /\ ret.st.current_type = "CarbAbsorption"
    /\ Len(ret.st.meals_stack) = 0
    /\ AbsorbsEveryInterval
    /\ call.n_buckets - ret.st.i >= MealSteps + 5

\* the last bucket was classified, and not as carb absorption
NotAbsorbingNow ==
    Classified /\ ret.st.current_type # "CarbAbsorption"

\* C30: the classifier cannot stay in carb absorption forever: with no
\* further meal and min_5m_carbimpact * carb_ratio / sens > 0, from any
\* bucket classified as carb absorption enough further buckets lead to a
\* bucket that is not, for every sequence of deviations, also deviations
\* that stay positive.
C30_CarbAbsorptionEnds == AbsorbingWithBucketsLeft ~> NotAbsorbingNow

\* carb absorption ended under deviations that stayed positive: the COB
\* was gone, the latch was forced off at the bucket before, and the bucket
\* after it is no longer carb absorption
C30_Witness ==
    /\ NotAbsorbingNow
    /\ AbsorbsEveryInterval
    /\ Len(ret.st.meals_stack) = 0
    /\ Last.since_absorbing_before = 0
    /\ Last.deviation > 0
    /\ Last.test.meal_start_counter > MealSteps

\* without a minimal carb impact the COB is never absorbed and the
\* classification stays
StaysAbsorbingWithoutImpact ==
    Classified /\ ~AbsorbsEveryInterval /\ Len(ret.st.meals_stack) = 0
        => ret.st.current_type = "CarbAbsorption"

====
